---- MODULE Spec2Model ----
(***************************************************************************)
(* A model of TiKV's batch system (components/batch-system/src/batch.rs):  *)
(* the Batch of one poll thread, the Poller's round, the pool's spawn and  *)
(* shutdown, together with the mailbox / scheduler / router contract the   *)
(* batch system consumes.                                                  *)
(*                                                                         *)
(* Every poll thread is a process whose position is pl[p].pc.  A step that *)
(* touches shared state (a channel, a mailbox) is one action; the three    *)
(* shared accesses of Batch::release (mailbox.release, mailbox.len,        *)
(* mailbox.take_fsm) are three actions, so that producers and other        *)
(* pollers interleave between them.                                        *)
(***************************************************************************)
EXTENDS Integers, Sequences, FiniteSets, TLC

(***************************************************************************)
(* Bounds of the model.                                                    *)
(***************************************************************************)
\* messages the producers send to one mailbox in all
MaxSend == 2
\* producers of one mailbox that have pushed a message and not yet notified
MaxNotifying == 1

(***************************************************************************)
(* Identities.                                                             *)
(***************************************************************************)
\* the control FSM's id in the mailbox tables; normal FSMs are 1, 2, ...
CTL == 0
\* an empty slot (Option::None) of Batch::normals
NONE == -1
FsmIds == {1, 2, 3}
AllFsm == {CTL} \cup FsmIds
PollerIds == {1, 2, 3}
Priorities == {"Normal", "Low"}

VARIABLES
    cfg,        \* Config: pool sizes, max_batch_size, the registered mailboxes
    sys,        \* BatchSystem: name_prefix, workers, position of shutdown()
    chan,       \* the two scheduler channels: chan.Normal, chan.Low
    mbox,       \* mbox[f]: the pending messages of f's mailbox (FIFO)
    mbFsm,      \* mbFsm[f]: f's mailbox holds the FSM (it is idle)
    closed,     \* closed[f]: f's mailbox is closed to producers
    stopped,    \* stopped[f]: Fsm::is_stopped
    prio,       \* prio[f]: Fsm::get_priority
    sent,       \* sent[f]: messages sent to f so far
    notifying,  \* notifying[f]: producers that pushed a message and have not yet notified
    destroyed,  \* FSMs released into a closed mailbox (dropped)
    pl,         \* pl[p]: the Poller p and the locals of its poll()
    hist,       \* history: what the hooks observed
    ts          \* the PD worker: max_ts_sync_status, shutdown, the spawned tasks

\* the batch system
batchVars == <<cfg, sys, chan, mbox, mbFsm, closed, stopped, prio, sent, notifying,
               destroyed, pl, hist>>

vars == <<cfg, sys, chan, mbox, mbFsm, closed, stopped, prio, sent, notifying,
          destroyed, pl, hist, ts>>

(***************************************************************************)
(* Channel items: FsmTypes<N, C>.                                          *)
(***************************************************************************)
NormalItem(f) == [type |-> "Normal", fsm |-> f]
ControlItem == [type |-> "Control", fsm |-> CTL]
EmptyItem == [type |-> "Empty", fsm |-> NONE]

\* ReschedulePolicy, and None for an unset policy
NoPolicy == [kind |-> "None", len |-> 0]
Release(l) == [kind |-> "Release", len |-> l]
Remove == [kind |-> "Remove", len |-> 0]
Schedule == [kind |-> "Schedule", len |-> 0]

\* NormalFsm::new: a fresh timer (not hot), no policy
NewNormalFsm(f) == [fsm |-> f, policy |-> NoPolicy, hot |-> FALSE]
NoneSlot == [fsm |-> NONE, policy |-> NoPolicy, hot |-> FALSE]

\* the priority of the poller's handler, fixed by start_poller
HandlerPriority(p) == IF p <= cfg.pool_size THEN "Normal" ELSE "Low"
\* the pollers spawn starts
Workers == 1 .. (cfg.pool_size + cfg.low_priority_pool_size)
Registered == {CTL} \cup cfg.fsms

(***************************************************************************)
(* The mailbox and scheduler contract (components outside this file).      *)
(***************************************************************************)
\* BasicMailbox::release: the mailbox stores the FSM again; an FSM released
\* into a closed mailbox is dropped.
MailboxRelease(f) ==
    /\ mbFsm' = IF closed[f] THEN mbFsm ELSE [mbFsm EXCEPT ![f] = TRUE]
    /\ destroyed' = IF closed[f] THEN destroyed \cup {f} ELSE destroyed

\* Sender::send on the channel of priority pr
ChanSend(c, pr, item) == [c EXCEPT ![pr] = Append(@, item)]
\* NormalScheduler::schedule: the channel of the FSM's current priority
NormalSchedule(c, f) == ChanSend(c, prio[f], NormalItem(f))
\* ControlScheduler::schedule: always the normal channel
ControlSchedule(c) == ChanSend(c, "Normal", ControlItem)

\* A producer pushes the next message into f's mailbox.
Send(f) ==
    /\ f \in cfg.producers
    /\ ~closed[f]
    /\ sent[f] < MaxSend
    /\ notifying[f] < MaxNotifying
    /\ sent' = [sent EXCEPT ![f] = @ + 1]
    /\ mbox' = [mbox EXCEPT ![f] = Append(@, sent[f] + 1)]
    /\ notifying' = [notifying EXCEPT ![f] = @ + 1]
    /\ UNCHANGED <<cfg, ts, sys, chan, mbFsm, closed, stopped, prio, destroyed, pl, hist>>

\* The producer then notifies: take_fsm, and schedule the FSM if it was idle.
Notify(f) ==
    /\ notifying[f] > 0
    /\ notifying' = [notifying EXCEPT ![f] = @ - 1]
    /\ IF mbFsm[f]
       THEN /\ mbFsm' = [mbFsm EXCEPT ![f] = FALSE]
            /\ chan' = IF f = CTL THEN ControlSchedule(chan) ELSE NormalSchedule(chan, f)
       ELSE UNCHANGED <<mbFsm, chan>>
    /\ UNCHANGED <<cfg, ts, sys, mbox, closed, stopped, prio, sent, destroyed, pl, hist>>

mailVars == <<mbox, mbFsm, closed, stopped, prio, sent, notifying, destroyed>>

(***************************************************************************)
(* Batch: pure operations on the poller record q (q.normals, q.control).   *)
(***************************************************************************)
\* Batch::push: false for the shutdown sentinel; a Control item asserts that
\* the control slot is empty.
BatchPush(q, item) ==
    CASE item.type = "Normal" -> [q EXCEPT !.normals = Append(@, NewNormalFsm(item.fsm)),
                                          !.order = Append(@, item.fsm)]
      [] item.type = "Control" -> [q EXCEPT !.control = TRUE,
                                            !.assert_failed = @ \/ q.control]
      [] OTHER -> q
\* a push that returns true for the shutdown sentinel too
PushResultAlwaysTrue(item) == TRUE

\* the value Batch::push returns
PushResult(item) == item.type # "Empty"

\* Batch::is_empty
BatchIsEmpty(q) == q.normals = <<>> /\ ~q.control

\* Vec::swap_remove(index): the last element takes the place of the removed one
SwapRemove(s, index) ==
    LET n == Len(s) IN
    [j \in 1 .. (n - 1) |-> IF j = index THEN s[n] ELSE s[j]]

\* a swap_reclaim that leaves the empty slot in the vector
SwapReclaimNever(normals, index) == normals

\* Batch::swap_reclaim
SwapReclaim(normals, index) ==
    IF normals[index].fsm = NONE THEN SwapRemove(normals, index) ELSE normals

(***************************************************************************)
(* The fixed order of a round of Poller::poll.                             *)
(***************************************************************************)
\* a round that runs end before it disposes of the skip_end FSMs
NextStageEndFirst(q, s) ==
    CASE s = "begin" -> "control"
      [] s = "control" -> "normal"
      [] s = "normal" -> "intake"
      [] s = "intake" -> "light_end"
      [] s = "light_end" -> "end"
      [] s = "end" -> "skip"
      [] s = "skip" -> "resched"
      [] OTHER -> IF q.run THEN "fetch" ELSE "exit"

NextStage(q, s) ==
    CASE s = "begin" -> "control"
      [] s = "control" -> "normal"
      [] s = "normal" -> "intake"
      [] s = "intake" -> "light_end"
      [] s = "light_end" -> "skip"
      [] s = "skip" -> "end"
      [] s = "end" -> "resched"
      [] OTHER -> IF q.run THEN "fetch" ELSE "exit"

\* a stage with nothing to do: no control FSM, nothing to iterate over, or
\* a batch already at its cap when the intake loop is entered
StageIsEmpty(q, s) ==
    \/ s = "control" /\ ~q.control
    \/ s = "normal" /\ q.normals = <<>>
    \/ s = "intake" /\ Len(q.normals) >= q.batch_cap
    \/ s = "skip" /\ q.to_skip_end = <<>>
    \/ s = "resched" /\ q.reschedule_fsms = <<>>

\* the hooks that touch nothing but the poller's own state run within the
\* step that reaches them
StageIsLocal(s) == s \in {"light_end", "end"}

\* history: the hook or stage `name` runs now
Mark(q, name) ==
    [q EXCEPT !.hooks = IF @ # <<>> /\ @[Len(@)] = name THEN @ ELSE Append(@, name)]

\* a first loop that starts at the second slot
EnterStageSkipsFirst(q, s) ==
    CASE s = "normal" -> [q EXCEPT !.pc = s, !.hot_fsm_count = 0,
                                   !.i = IF Len(q.normals) >= 2 THEN 2 ELSE 1]
      [] s = "intake" -> [q EXCEPT !.pc = s, !.fsm_cnt = Len(q.normals)]
      [] s = "skip" -> [q EXCEPT !.pc = s, !.i = 1]
      [] s = "resched" -> [q EXCEPT !.pc = s, !.i = Len(q.reschedule_fsms)]
      [] s \in {"fetch", "exit"} -> [q EXCEPT !.pc = s, !.hooks = <<>>,
                                              !.handled = <<>>, !.skip_req = {},
                                              !.disposed = <<>>]
      [] OTHER -> [q EXCEPT !.pc = s]

\* the locals a stage starts with
EnterStage(q, s) ==
    CASE s = "normal" -> [q EXCEPT !.pc = s, !.hot_fsm_count = 0, !.i = 1]
      [] s = "intake" -> [q EXCEPT !.pc = s, !.fsm_cnt = Len(q.normals)]
      [] s = "skip" -> [q EXCEPT !.pc = s, !.i = 1]
      [] s = "resched" -> [q EXCEPT !.pc = s, !.i = Len(q.reschedule_fsms)]
      [] s \in {"fetch", "exit"} -> [q EXCEPT !.pc = s, !.hooks = <<>>,
                                              !.handled = <<>>, !.skip_req = {},
                                              !.disposed = <<>>]
      [] OTHER -> [q EXCEPT !.pc = s]

RECURSIVE Goto(_, _)
Goto(q, s) ==
    IF StageIsLocal(s) THEN Goto(Mark(q, s), NextStage(q, s))
    ELSE IF StageIsEmpty(q, s)
    THEN Goto([q EXCEPT !.hot_fsm_count = IF s = "normal" THEN 0 ELSE @], NextStage(q, s))
    ELSE EnterStage(q, s)

\* the stage that follows stage s of the round
Advance(q, s) == Goto(q, NextStage(q, s))

(***************************************************************************)
(* The handler: user code.  handle_normal / handle_control pop any number  *)
(* of the pending messages, may stop the FSM (which closes its mailbox,    *)
(* see the comment in Batch::remove), may change its priority, and report  *)
(* as progress the mailbox length they saw last.                           *)
(***************************************************************************)
KeepProcessing == [kind |-> "KeepProcessing", progress |-> 0, skip_end |-> FALSE]
StopAt(progress, skip_end) == [kind |-> "StopAt", progress |-> progress, skip_end |-> skip_end]

HandleResults(left) ==
    {KeepProcessing} \cup
    {StopAt(left, sk) : sk \in IF "skip_end" \in cfg.handler THEN BOOLEAN ELSE {FALSE}}

\* what one call of handle_normal on f may do
HandlerOutcomes(f) ==
    {[pops |-> k, stop |-> st, prio |-> np, res |-> r] :
        k \in 0 .. Len(mbox[f]),
        st \in IF "stop" \in cfg.handler THEN BOOLEAN ELSE {FALSE},
        np \in IF "priority" \in cfg.handler THEN Priorities ELSE {prio[f]},
        r \in HandleResults(0)}

\* the mailbox after the handler popped k messages
Popped(f, k) == SubSeq(mbox[f], k + 1, Len(mbox[f]))

\* the effect of one handler call on the FSM and its mailbox;
\* hist.observed[f] records the messages the handler has taken, in order, and
\* hist.look[f] the number of messages sent to f when the handler looked last
HandlerEffect(f, out) ==
    /\ mbox' = [mbox EXCEPT ![f] = Popped(f, out.pops)]
    /\ hist' = [hist EXCEPT !.observed[f] = @ \o SubSeq(mbox[f], 1, out.pops),
                            !.look[f] = sent[f]]
    /\ stopped' = [stopped EXCEPT ![f] = @ \/ out.stop]
    /\ closed' = [closed EXCEPT ![f] = @ \/ out.stop]
    /\ prio' = [prio EXCEPT ![f] = out.prio]

\* HandleResult as the handler reports it: progress is the length left
Reported(f, out) ==
    IF out.res.kind = "StopAt"
    THEN StopAt(Len(mbox[f]) - out.pops, out.res.skip_end)
    ELSE KeepProcessing

\* whether the timer check may find the FSM hot: time only moves forward
HotChoices(slot) ==
    IF slot.hot THEN {TRUE}
    ELSE IF "hot" \in cfg.handler THEN BOOLEAN ELSE {FALSE}

\* history: handle_normal ran on f, the FSM at index i, and returned res
Observe(q, f, i, res) ==
    [Mark(q, "handle_normal") EXCEPT
        !.handled = Append(@, f),
        !.skip_req = IF res.kind = "StopAt" /\ res.skip_end THEN @ \cup {i} ELSE @]

(***************************************************************************)
(* Classification after handle_normal.                                     *)
(***************************************************************************)
\* a classification that forgets to_skip_end
SetPolicyWithoutSkip(q, i, pol, skip) ==
    [q EXCEPT !.normals[i].policy = pol,
              !.reschedule_fsms = Append(@, i)]

SetPolicy(q, i, pol, skip) ==
    [q EXCEPT !.normals[i].policy = pol,
              !.reschedule_fsms = Append(@, i),
              !.to_skip_end = IF skip THEN Append(@, i) ELSE @]

\* a classification in which a StopAt result goes before the hot check
ClassifyHeldStopAtFirst(q, i, res, isStopped, fsmPrio, handlerPrio, hotNow) ==
    IF isStopped THEN SetPolicy(q, i, Remove, FALSE)
    ELSE IF fsmPrio # handlerPrio THEN SetPolicy(q, i, Schedule, FALSE)
    ELSE LET q1 == [q EXCEPT !.hot_fsm_count = IF hotNow THEN @ + 1 ELSE @]
         IN  IF res.kind = "StopAt"
             THEN SetPolicy(q1, i, Release(res.progress), res.skip_end)
             ELSE IF hotNow /\ q1.hot_fsm_count % 2 = 0
                  THEN SetPolicy(q1, i, Schedule, FALSE)
                  ELSE q1

\* a classification that does not look at the priority
ClassifyHeldIgnoresPriority(q, i, res, isStopped, fsmPrio, handlerPrio, hotNow) ==
    IF isStopped THEN SetPolicy(q, i, Remove, FALSE)
    ELSE LET q1 == [q EXCEPT !.hot_fsm_count = IF hotNow THEN @ + 1 ELSE @]
         IN  IF hotNow /\ q1.hot_fsm_count % 2 = 0
             THEN SetPolicy(q1, i, Schedule, FALSE)
             ELSE IF res.kind = "StopAt"
                  THEN SetPolicy(q1, i, Release(res.progress), res.skip_end)
                  ELSE q1

\* a classification that reschedules every hot FSM
ClassifyHeldEveryHot(q, i, res, isStopped, fsmPrio, handlerPrio, hotNow) ==
    IF isStopped THEN SetPolicy(q, i, Remove, FALSE)
    ELSE IF fsmPrio # handlerPrio THEN SetPolicy(q, i, Schedule, FALSE)
    ELSE LET q1 == [q EXCEPT !.hot_fsm_count = IF hotNow THEN @ + 1 ELSE @]
         IN  IF hotNow
             THEN SetPolicy(q1, i, Schedule, FALSE)
             ELSE IF res.kind = "StopAt"
                  THEN SetPolicy(q1, i, Release(res.progress), res.skip_end)
                  ELSE q1

\* the first loop of the round: FSMs held when the round started
ClassifyHeld(q, i, res, isStopped, fsmPrio, handlerPrio, hotNow) ==
    IF isStopped THEN SetPolicy(q, i, Remove, FALSE)
    ELSE IF fsmPrio # handlerPrio THEN SetPolicy(q, i, Schedule, FALSE)
    ELSE LET q1 == [q EXCEPT !.hot_fsm_count = IF hotNow THEN @ + 1 ELSE @]
         IN  IF hotNow /\ q1.hot_fsm_count % 2 = 0
             THEN SetPolicy(q1, i, Schedule, FALSE)
             ELSE IF res.kind = "StopAt"
                  THEN SetPolicy(q1, i, Release(res.progress), res.skip_end)
                  ELSE q1

\* an intake that sends every FSM it received back to the scheduler
ClassifyIntakeSchedules(q, i, res, isStopped) ==
    IF isStopped THEN SetPolicy(q, i, Remove, FALSE)
    ELSE SetPolicy(q, i, Schedule, FALSE)

\* the mid-round intake: FSMs received during the round
ClassifyIntake(q, i, res, isStopped) ==
    IF isStopped THEN SetPolicy(q, i, Remove, FALSE)
    ELSE IF res.kind = "StopAt"
         THEN SetPolicy(q, i, Release(res.progress), res.skip_end)
         ELSE q

(***************************************************************************)
(* The start of a round of Poller::poll.                                   *)
(***************************************************************************)
Max(a, b) == IF a >= b THEN a ELSE b

\* the values Config::max_batch_size() may return when the callback of
\* begin reads the live configuration; NONE: the handler does not call it
UpdateCfg == {NONE} \cup cfg.sizes

\* a round whose cap is the one computed before the callback of begin ran
BeginCapBeforeCallback(q, update_cfg) ==
    LET m == IF update_cfg = NONE THEN q.max_batch_size ELSE update_cfg
        q1 == [q EXCEPT !.max_batch_size = m,
                        !.batch_cap = Max(q.max_batch_size, Len(q.normals)),
                        !.len = NONE,
                        !.hooks = <<"begin">>,
                        !.handled = <<>>,
                        !.skip_req = {},
                        !.resched_count = 0]
    IN  Advance(q1, "begin")

\* handler.begin: the handler may run the callback that reads the live
\* max_batch_size (update_cfg is what it reads); the round's cap is computed
\* after it
Begin(q, update_cfg) ==
    LET m == IF update_cfg = NONE THEN q.max_batch_size ELSE update_cfg
        q1 == [q EXCEPT !.max_batch_size = m,
                        !.batch_cap = Max(m, Len(q.normals)),
                        !.len = NONE,
                        !.hooks = <<"begin">>,
                        !.handled = <<>>,
                        !.skip_req = {},
                        !.resched_count = 0]
    IN  Advance(q1, "begin")

(***************************************************************************)
(* Poller::fetch_fsm.                                                      *)
(***************************************************************************)
\* the receiver of the poller's priority
Receiver(p) == chan[HandlerPriority(p)]

\* what fetch_fsm does with a received item: push it, and start a round
\* unless it was the shutdown sentinel
Received(q, item, update_cfg) ==
    IF PushResult(item) THEN Begin(BatchPush(q, item), update_cfg)
    ELSE [q EXCEPT !.pc = "exit"]

\* a fetch_fsm that pauses and blocks whenever try_recv found nothing
FetchFsmBlocksAlways(p) ==
    LET q == pl[p] IN
    /\ q.pc = "fetch"
    /\ \E update_cfg \in UpdateCfg :
       IF q.control
       THEN /\ pl' = [pl EXCEPT ![p] = Begin(q, update_cfg)]
            /\ UNCHANGED chan
       ELSE IF Receiver(p) # <<>>
       THEN /\ pl' = [pl EXCEPT ![p] = Received(q, Head(Receiver(p)), update_cfg)]
            /\ chan' = [chan EXCEPT ![HandlerPriority(p)] = Tail(@)]
       ELSE /\ pl' = [pl EXCEPT ![p].pc = "recv"]
            /\ UNCHANGED chan
    /\ UNCHANGED <<cfg, ts, sys, mailVars, hist>>

\* fetch_fsm up to the point where it returns or blocks; when it returns
\* true the round starts with handler.begin
FetchFsm(p) ==
    LET q == pl[p] IN
    /\ q.pc = "fetch"
    /\ \E update_cfg \in UpdateCfg :
       IF q.control
       THEN /\ pl' = [pl EXCEPT ![p] = Begin(q, update_cfg)]
            /\ UNCHANGED chan
       ELSE IF Receiver(p) # <<>>
       THEN /\ pl' = [pl EXCEPT ![p] = Received(q, Head(Receiver(p)), update_cfg)]
            /\ chan' = [chan EXCEPT ![HandlerPriority(p)] = Tail(@)]
       ELSE IF BatchIsEmpty(q)
       THEN \* handler.pause(), then the blocking recv
            /\ pl' = [pl EXCEPT ![p].pc = "recv"]
            /\ UNCHANGED chan
       ELSE /\ pl' = [pl EXCEPT ![p] = Begin(q, update_cfg)]
            /\ UNCHANGED chan
    /\ UNCHANGED <<cfg, ts, sys, mailVars, hist>>

\* the blocking recv of fetch_fsm returns an item
BlockingRecv(p) ==
    LET q == pl[p] IN
    /\ q.pc = "recv"
    /\ Receiver(p) # <<>>
    /\ \E update_cfg \in UpdateCfg :
         pl' = [pl EXCEPT ![p] = Received(q, Head(Receiver(p)), update_cfg)]
    /\ chan' = [chan EXCEPT ![HandlerPriority(p)] = Tail(@)]
    /\ UNCHANGED <<cfg, ts, sys, mailVars, hist>>

(***************************************************************************)
(* The round of Poller::poll.                                              *)
(***************************************************************************)
\* handler.handle_control, then the choice of its disposition
HandleControl(p) ==
    LET q == pl[p] IN
    /\ q.pc = "control"
    /\ \E k \in 0 .. Len(mbox[CTL]),
          st \in IF "stop" \in cfg.handler THEN BOOLEAN ELSE {FALSE},
          some \in BOOLEAN :
         LET len == IF some THEN Len(mbox[CTL]) - k ELSE NONE IN
         /\ mbox' = [mbox EXCEPT ![CTL] = Popped(CTL, k)]
         /\ stopped' = [stopped EXCEPT ![CTL] = @ \/ st]
         /\ closed' = [closed EXCEPT ![CTL] = @ \/ st]
         /\ pl' = [pl EXCEPT ![p] =
                IF stopped'[CTL] \/ len # NONE
                THEN [Mark(q, "handle_control") EXCEPT !.len = len, !.pc = "ctl_dispose"]
                ELSE Advance([Mark(q, "handle_control") EXCEPT !.len = len], "control")]
         /\ hist' = [hist EXCEPT !.ctl_len = IF stopped'[CTL] THEN NONE ELSE len]
    /\ UNCHANGED <<cfg, ts, sys, chan, mbFsm, prio, sent, notifying, destroyed>>

\* remove_control when the control FSM is stopped, else the first access of
\* release_control: control_box.release
ControlDispose(p) ==
    LET q == pl[p] IN
    /\ q.pc = "ctl_dispose"
    /\ IF stopped[CTL]
       THEN IF mbox[CTL] = <<>>
            THEN /\ MailboxRelease(CTL)
                 /\ pl' = [pl EXCEPT ![p] = Advance([q EXCEPT !.control = FALSE], "control")]
            ELSE /\ pl' = [pl EXCEPT ![p] = Advance(q, "control")]
                 /\ UNCHANGED <<mbFsm, destroyed>>
       ELSE /\ MailboxRelease(CTL)
            /\ pl' = [pl EXCEPT ![p] = [q EXCEPT !.control = FALSE, !.pc = "ctl_len"]]
    /\ UNCHANGED <<cfg, ts, sys, chan, mbox, closed, stopped, prio, sent, notifying, hist>>

\* a release_control that takes the FSM back when the length is checked_len
ReleaseControlLenInverted(p) ==
    LET q == pl[p] IN
    /\ q.pc = "ctl_len"
    /\ pl' = [pl EXCEPT ![p] =
           IF Len(mbox[CTL]) # q.len THEN Advance(q, "control")
           ELSE [q EXCEPT !.pc = "ctl_take"]]
    /\ UNCHANGED <<cfg, ts, sys, chan, mailVars, hist>>

\* release_control: control_box.len() == checked_len
ReleaseControlLen(p) ==
    LET q == pl[p] IN
    /\ q.pc = "ctl_len"
    /\ pl' = [pl EXCEPT ![p] =
           IF Len(mbox[CTL]) = q.len THEN Advance(q, "control")
           ELSE [q EXCEPT !.pc = "ctl_take"]]
    /\ UNCHANGED <<cfg, ts, sys, chan, mailVars, hist>>

\* a release_control that keeps the control FSM whether or not take_fsm
\* returned it
ReleaseControlTakeUnchecked(p) ==
    LET q == pl[p] IN
    /\ q.pc = "ctl_take"
    /\ pl' = [pl EXCEPT ![p] = Advance([q EXCEPT !.control = TRUE], "control")]
    /\ mbFsm' = [mbFsm EXCEPT ![CTL] = FALSE]
    /\ UNCHANGED <<cfg, ts, sys, chan, mbox, closed, stopped, prio, sent, notifying,
                   destroyed, hist>>

\* release_control: control_box.take_fsm()
ReleaseControlTake(p) ==
    LET q == pl[p] IN
    /\ q.pc = "ctl_take"
    /\ pl' = [pl EXCEPT ![p] = Advance([q EXCEPT !.control = mbFsm[CTL]], "control")]
    /\ mbFsm' = [mbFsm EXCEPT ![CTL] = FALSE]
    /\ UNCHANGED <<cfg, ts, sys, chan, mbox, closed, stopped, prio, sent, notifying,
                   destroyed, hist>>

\* one iteration of the first loop: handle_normal on the FSM at index i, then
\* its classification
HandleNormal(p) ==
    LET q == pl[p]
        i == q.i
        slot == q.normals[i]
        f == slot.fsm
    IN
    /\ q.pc = "normal"
    /\ IF f = NONE
       THEN \* p.as_mut().unwrap() on an empty slot
            /\ pl' = [pl EXCEPT ![p].pc = "panicked"]
            /\ UNCHANGED <<mbox, stopped, closed, prio, hist>>
       ELSE \E out \in HandlerOutcomes(f), hotNow \in HotChoices(slot) :
            /\ HandlerEffect(f, out)
            /\ LET q0 == [Observe(q, f, i, Reported(f, out)) EXCEPT !.normals[i].hot = hotNow]
                   q1 == ClassifyHeld(q0, i, Reported(f, out), stopped'[f], prio'[f],
                                      HandlerPriority(p), hotNow)
               IN  pl' = [pl EXCEPT ![p] =
                       IF i >= Len(q.normals) THEN Advance(q1, "normal")
                       ELSE [q1 EXCEPT !.i = i + 1]]
    /\ UNCHANGED <<cfg, ts, sys, chan, mbFsm, sent, notifying, destroyed>>

\* one iteration of the intake loop (entered with the batch below its cap):
\* try_recv, push, and either the break or handle_normal on the FSM just
\* received, its classification and the loop condition
Intake(p) ==
    LET q == pl[p]
        got == Receiver(p) # <<>>
        item == Head(Receiver(p))
        q1 == IF got THEN [BatchPush(q, item) EXCEPT !.run = PushResult(item)] ELSE q
        i == q.fsm_cnt + 1
    IN
    /\ q.pc = "intake"
    /\ chan' = IF got THEN [chan EXCEPT ![HandlerPriority(p)] = Tail(@)] ELSE chan
    /\ IF ~q1.run \/ q.fsm_cnt >= Len(q1.normals)
       THEN /\ pl' = [pl EXCEPT ![p] = Advance(q1, "intake")]
            /\ UNCHANGED <<mbox, stopped, closed, prio, hist>>
       ELSE LET f == q1.normals[i].fsm IN
            \E out \in HandlerOutcomes(f) :
            /\ HandlerEffect(f, out)
            /\ LET q2 == [ClassifyIntake(Observe(q1, f, i, Reported(f, out)), i,
                                         Reported(f, out), stopped'[f])
                          EXCEPT !.fsm_cnt = i]
               IN  pl' = [pl EXCEPT ![p] =
                       IF Len(q2.normals) < q2.batch_cap THEN q2
                       ELSE Advance(q2, "intake")]
    /\ UNCHANGED <<cfg, ts, sys, mbFsm, sent, notifying, destroyed>>

(***************************************************************************)
(* Batch::schedule(index), called from the to_skip_end loop (ret = "skip") *)
(* and from the reversed reschedule_fsms loop (ret = "resched"), where     *)
(* swap_reclaim(index) follows it.                                         *)
(***************************************************************************)
\* the FSMs in the slots of the batch
Held(q) == {q.normals[j].fsm : j \in DOMAIN q.normals} \ {NONE}

\* history: the insertion order keeps only the FSMs still in the batch
Forget(q) == [q EXCEPT !.order = SelectSeq(@, LAMBDA f : f \in Held(q))]

\* loops that end without clearing their index lists
AfterScheduleKeepsLists(q0) ==
    LET q == Forget(q0) IN
    IF q.ret = "skip"
    THEN IF q.i >= Len(q.to_skip_end)
         THEN Advance(q, "skip")
         ELSE [q EXCEPT !.i = @ + 1, !.pc = "skip"]
    ELSE LET q1 == [q EXCEPT !.normals = SwapReclaim(@, q.idx)] IN
         IF q.i <= 1
         THEN Advance(q1, "resched")
         ELSE [q1 EXCEPT !.i = @ - 1, !.pc = "resched"]

\* what follows the return of schedule(q.idx): the rest of the loop body and
\* the loop's next iteration or its end
AfterSchedule(q0) ==
    LET q == Forget(q0) IN
    IF q.ret = "skip"
    THEN IF q.i >= Len(q.to_skip_end)
         THEN Advance([q EXCEPT !.to_skip_end = <<>>], "skip")
         ELSE [q EXCEPT !.i = @ + 1, !.pc = "skip"]
    ELSE LET q1 == [q EXCEPT !.normals = SwapReclaim(@, q.idx)] IN
         IF q.i <= 1
         THEN Advance([q1 EXCEPT !.reschedule_fsms = <<>>], "resched")
         ELSE [q1 EXCEPT !.i = @ - 1, !.pc = "resched"]

\* an FSM that comes back keeps its policy
RestoreKeepsPolicy(q, slot) == [q EXCEPT !.normals[q.idx] = slot]

\* `if let Some(f) = &mut res`: the FSM stays, its policy cleared
Restore(q, slot) == [q EXCEPT !.normals[q.idx] = [slot EXCEPT !.policy = NoPolicy]]

\* a remove that releases the FSM whatever its mailbox holds
RemoveReleasesAlways(f) == TRUE

\* Batch::remove releases the FSM only if its mailbox is empty
RemoveReleases(f) == mbox[f] = <<>>

\* a schedule that sends the FSM to the scheduler and keeps it in its slot
ScheduleAtKeepsScheduled(p, index, ret) ==
    LET q == [Mark(pl[p], ret) EXCEPT !.idx = index, !.ret = ret]
        slot == q.normals[index]
        f == slot.fsm
        taken == [q EXCEPT !.normals[index] = NoneSlot]
        \* history: the FSM leaves the batch in this call
        gone == [taken EXCEPT !.disposed = Append(@, f)]
    IN
    IF f = NONE
    THEN /\ pl' = [pl EXCEPT ![p] = AfterSchedule(q)]
         /\ UNCHANGED <<chan, mbFsm, destroyed>>
    ELSE CASE slot.policy.kind = "Release" ->
                \* Batch::release: mailbox.release(fsm.fsm)
                /\ MailboxRelease(f)
                /\ pl' = [pl EXCEPT ![p] = [gone EXCEPT !.to_schedule = slot,
                                                        !.pc = "rel_len"]]
                /\ UNCHANGED chan
           [] slot.policy.kind = "Remove" ->
                \* Batch::remove
                IF RemoveReleases(f)
                THEN /\ MailboxRelease(f)
                     /\ pl' = [pl EXCEPT ![p] = AfterSchedule(gone)]
                     /\ UNCHANGED chan
                ELSE /\ pl' = [pl EXCEPT ![p] = AfterSchedule(Restore(taken, slot))]
                     /\ UNCHANGED <<chan, mbFsm, destroyed>>
           [] slot.policy.kind = "Schedule" ->
                /\ chan' = NormalSchedule(chan, f)
                /\ pl' = [pl EXCEPT ![p] =
                       AfterSchedule([q EXCEPT !.resched_count = @ + 1,
                                               !.disposed = Append(@, f)])]
                /\ UNCHANGED <<mbFsm, destroyed>>
           [] OTHER ->
                /\ pl' = [pl EXCEPT ![p] = AfterSchedule(Restore(taken, slot))]
                /\ UNCHANGED <<chan, mbFsm, destroyed>>

\* schedule(index) up to its return, or up to the first access of release
ScheduleAt(p, index, ret) ==
    LET q == [Mark(pl[p], ret) EXCEPT !.idx = index, !.ret = ret]
        slot == q.normals[index]
        f == slot.fsm
        taken == [q EXCEPT !.normals[index] = NoneSlot]
        \* history: the FSM leaves the batch in this call
        gone == [taken EXCEPT !.disposed = Append(@, f)]
    IN
    IF f = NONE
    THEN /\ pl' = [pl EXCEPT ![p] = AfterSchedule(q)]
         /\ UNCHANGED <<chan, mbFsm, destroyed>>
    ELSE CASE slot.policy.kind = "Release" ->
                \* Batch::release: mailbox.release(fsm.fsm)
                /\ MailboxRelease(f)
                /\ pl' = [pl EXCEPT ![p] = [gone EXCEPT !.to_schedule = slot,
                                                        !.pc = "rel_len"]]
                /\ UNCHANGED chan
           [] slot.policy.kind = "Remove" ->
                \* Batch::remove
                IF RemoveReleases(f)
                THEN /\ MailboxRelease(f)
                     /\ pl' = [pl EXCEPT ![p] = AfterSchedule(gone)]
                     /\ UNCHANGED chan
                ELSE /\ pl' = [pl EXCEPT ![p] = AfterSchedule(Restore(taken, slot))]
                     /\ UNCHANGED <<chan, mbFsm, destroyed>>
           [] slot.policy.kind = "Schedule" ->
                /\ chan' = NormalSchedule(chan, f)
                /\ pl' = [pl EXCEPT ![p] =
                       AfterSchedule([gone EXCEPT !.resched_count = @ + 1])]
                /\ UNCHANGED <<mbFsm, destroyed>>
           [] OTHER ->
                /\ pl' = [pl EXCEPT ![p] = AfterSchedule(Restore(taken, slot))]
                /\ UNCHANGED <<chan, mbFsm, destroyed>>

\* one iteration of `for index in &to_skip_end`
SkipEndSchedule(p) ==
    /\ pl[p].pc = "skip"
    /\ ScheduleAt(p, pl[p].to_skip_end[pl[p].i], "skip")
    /\ UNCHANGED <<cfg, ts, sys, mbox, closed, stopped, prio, sent, notifying, hist>>

\* one iteration of `for index in reschedule_fsms.iter().rev()`
Reschedule(p) ==
    /\ pl[p].pc = "resched"
    /\ ScheduleAt(p, pl[p].reschedule_fsms[pl[p].i], "resched")
    /\ UNCHANGED <<cfg, ts, sys, mbox, closed, stopped, prio, sent, notifying, hist>>

\* a release that takes the FSM back when the length is the expected one
ReleaseLenInverted(p) ==
    LET q == pl[p]
        f == q.to_schedule.fsm
    IN
    /\ q.pc = "rel_len"
    /\ pl' = [pl EXCEPT ![p] =
           IF Len(mbox[f]) # q.to_schedule.policy.len
           THEN AfterSchedule([q EXCEPT !.to_schedule = NoneSlot])
           ELSE [q EXCEPT !.pc = "rel_take"]]
    /\ UNCHANGED <<cfg, ts, sys, chan, mailVars, hist>>

\* a release that never looks at the length of the mailbox
ReleaseLenIgnored(p) ==
    LET q == pl[p] IN
    /\ q.pc = "rel_len"
    /\ pl' = [pl EXCEPT ![p] = AfterSchedule([q EXCEPT !.to_schedule = NoneSlot])]
    /\ UNCHANGED <<cfg, ts, sys, chan, mailVars, hist>>

\* Batch::release: mailbox.len() == expected_len
ReleaseLen(p) ==
    LET q == pl[p]
        f == q.to_schedule.fsm
    IN
    /\ q.pc = "rel_len"
    /\ pl' = [pl EXCEPT ![p] =
           IF Len(mbox[f]) = q.to_schedule.policy.len
           THEN AfterSchedule([q EXCEPT !.to_schedule = NoneSlot])
           ELSE [q EXCEPT !.pc = "rel_take"]]
    /\ UNCHANGED <<cfg, ts, sys, chan, mailVars, hist>>

\* a take_fsm that hands out the FSM whether or not the mailbox holds it
ReleaseTakeUnchecked(p) ==
    LET q == pl[p]
        done == [q EXCEPT !.to_schedule = NoneSlot]
    IN
    /\ q.pc = "rel_take"
    /\ pl' = [pl EXCEPT ![p] = AfterSchedule(Restore(done, q.to_schedule))]
    /\ mbFsm' = [mbFsm EXCEPT ![q.to_schedule.fsm] = FALSE]
    /\ UNCHANGED <<cfg, ts, sys, chan, mbox, closed, stopped, prio, sent, notifying,
                   destroyed, hist>>

\* Batch::release: mailbox.take_fsm()
ReleaseTake(p) ==
    LET q == pl[p]
        f == q.to_schedule.fsm
        done == [q EXCEPT !.to_schedule = NoneSlot]
    IN
    /\ q.pc = "rel_take"
    /\ pl' = [pl EXCEPT ![p] =
           IF mbFsm[f] THEN AfterSchedule(Restore(done, q.to_schedule))
           ELSE AfterSchedule(done)]
    /\ mbFsm' = [mbFsm EXCEPT ![f] = FALSE]
    /\ UNCHANGED <<cfg, ts, sys, chan, mbox, closed, stopped, prio, sent, notifying,
                   destroyed, hist>>

(***************************************************************************)
(* The end of Poller::poll: what is left goes back through the schedulers. *)
(***************************************************************************)
RECURSIVE ScheduleAll(_, _)
\* normal_scheduler.schedule for every occupied slot, in order
ScheduleAll(c, normals) ==
    IF normals = <<>> THEN c
    ELSE ScheduleAll(IF Head(normals).fsm = NONE THEN c
                     ELSE NormalSchedule(c, Head(normals).fsm),
                     Tail(normals))

\* an exit that leaves the batch as it is
PollerExitKeepsBatch(p) ==
    /\ pl[p].pc = "exit"
    /\ pl' = [pl EXCEPT ![p].pc = "done"]
    /\ UNCHANGED <<cfg, ts, sys, chan, mailVars, hist>>

\* an exit that forgets the control FSM
PollerExitDropsControl(p) ==
    LET q == pl[p] IN
    /\ q.pc = "exit"
    /\ chan' = ScheduleAll(chan, q.normals)
    /\ pl' = [pl EXCEPT ![p] = [q EXCEPT !.control = FALSE, !.normals = <<>>,
                                         !.order = <<>>, !.pc = "done"]]
    /\ UNCHANGED <<cfg, ts, sys, mailVars, hist>>

PollerExit(p) ==
    LET q == pl[p]
        c == IF q.control THEN ControlSchedule(chan) ELSE chan
    IN
    /\ q.pc = "exit"
    /\ chan' = ScheduleAll(c, q.normals)
    /\ pl' = [pl EXCEPT ![p] = [q EXCEPT !.control = FALSE, !.normals = <<>>,
                                         !.order = <<>>, !.pc = "done"]]
    /\ UNCHANGED <<cfg, ts, sys, mailVars, hist>>

(***************************************************************************)
(* BatchSystem: spawn and shutdown.                                        *)
(***************************************************************************)
\* Poller as start_poller builds it, with the locals of poll() before the loop
NewPoller(pc) ==
    [pc |-> pc, normals |-> <<>>, control |-> FALSE, assert_failed |-> FALSE,
     run |-> TRUE, max_batch_size |-> cfg.max_batch_size, batch_cap |-> 0,
     reschedule_fsms |-> <<>>, to_skip_end |-> <<>>, hot_fsm_count |-> 0,
     fsm_cnt |-> 0, i |-> 0, idx |-> 0, ret |-> "resched", to_schedule |-> NoneSlot,
     len |-> NONE, resched_count |-> 0, hooks |-> <<>>,
     order |-> <<>>, handled |-> <<>>, skip_req |-> {}, disposed |-> <<>>]

RECURSIVE Iota(_, _)
\* <<a, a + 1, ..., b>>
Iota(a, b) == IF a > b THEN <<>> ELSE <<a>> \o Iota(a + 1, b)

\* BatchSystem::spawn: pool_size normal pollers, then low_priority_pool_size
\* low ones
Spawn ==
    /\ sys.state = "created"
    /\ sys' = [sys EXCEPT !.state = "running", !.name_prefix = TRUE,
                          !.workers = Iota(1, cfg.pool_size + cfg.low_priority_pool_size)]
    /\ pl' = [p \in PollerIds |-> IF p \in Workers THEN NewPoller("fetch") ELSE pl[p]]
    /\ hist' = [hist EXCEPT !.returned_early = FALSE]
    /\ UNCHANGED <<cfg, ts, chan, mailVars>>

RECURSIVE Sentinels(_)
Sentinels(n) == IF n = 0 THEN <<>> ELSE <<EmptyItem>> \o Sentinels(n - 1)

\* Router::broadcast_shutdown: the mailboxes are closed to producers and
\* every worker's channel gets a shutdown sentinel for it
BroadcastShutdown ==
    /\ closed' = [f \in AllFsm |-> TRUE]
    /\ chan' = [Normal |-> chan.Normal \o Sentinels(cfg.pool_size),
                Low |-> chan.Low \o Sentinels(cfg.low_priority_pool_size)]

\* a shutdown that does not test name_prefix
ShutdownUnguarded ==
    /\ sys.state # "joining"
    /\ sys' = [sys EXCEPT !.state = "joining", !.name_prefix = FALSE]
    /\ BroadcastShutdown
    /\ hist' = [hist EXCEPT !.returned_early = FALSE]
    /\ UNCHANGED <<cfg, ts, mbox, mbFsm, stopped, prio, sent, notifying, destroyed, pl>>

\* BatchSystem::shutdown up to the join loop. It takes &mut self, so a call
\* starts only when no other call is in its join loop. hist.returned_early
\* records whether the latest call of spawn or shutdown was a shutdown that
\* returned at its first test.
Shutdown ==
    /\ sys.state # "joining"
    /\ IF ~sys.name_prefix
       THEN /\ hist' = [hist EXCEPT !.returned_early = TRUE]
            /\ UNCHANGED <<cfg, ts, sys, chan, mailVars, pl>>
       ELSE /\ sys' = [sys EXCEPT !.state = "joining", !.name_prefix = FALSE]
            /\ BroadcastShutdown
            /\ hist' = [hist EXCEPT !.returned_early = FALSE]
            /\ UNCHANGED <<cfg, ts, mbox, mbFsm, stopped, prio, sent, notifying, destroyed, pl>>

\* whether the thread of poller p has finished
Finished(p) == pl[p].pc \in {"done", "panicked"}

\* a join that returns while the thread is still running
JoinWithoutWaiting ==
    /\ sys.state = "joining"
    /\ sys.workers # <<>>
    /\ sys' = [sys EXCEPT !.workers = Tail(@),
                          !.state = IF Len(sys.workers) = 1 THEN "stopped" ELSE @]
    /\ UNCHANGED <<cfg, ts, chan, mailVars, pl, hist>>

\* one iteration of shutdown's join loop: h.join() returns when the thread
\* has finished; shutdown returns after the last one
Join ==
    /\ sys.state = "joining"
    /\ sys.workers # <<>>
    /\ Finished(Head(sys.workers))
    /\ sys' = [sys EXCEPT !.workers = Tail(@),
                          !.state = IF Len(sys.workers) = 1 THEN "stopped" ELSE @]
    /\ UNCHANGED <<cfg, ts, chan, mailVars, pl, hist>>

(***************************************************************************)
(* The max-timestamp task of the PD worker (worker/pd/misc.rs).            *)
(* handle_update_max_timestamp spawns a task that fetches a timestamp,     *)
(* feeds it to the concurrency manager and then marks the status synced.   *)
(* Other parties store new statuses and set the shutdown flag.             *)
(***************************************************************************)
MaxStatus == 1
MaxCas == 2
TaskIds == {1, 2}
StatusValues == 0 .. MaxStatus

\* initial_status | 1
SetSynced(x) == IF x % 2 = 1 THEN x ELSE x + 1

\* a task not spawned yet
NewTask ==
    [pc |-> "idle", initial_status |-> 0, success |-> FALSE, fetched |-> "none",
     updated |-> FALSE, cas |-> 0, retried |-> FALSE, logged |-> "none"]

\* the runner before any task; visible is the set of tasks whose Relaxed
\* loads see the store to shutdown
NewTs(causal) ==
    [max_ts_sync_status |-> 0, shutdown |-> FALSE, visible |-> {},
     causal_ts_provider |-> causal, tasks |-> [t \in TaskIds |-> NewTask]]

\* the task's step ends in pc with the given fields
TaskGoes(t, q) == ts' = [ts EXCEPT !.tasks[t] = q]

\* the log line after the loop
Finish(q) ==
    [q EXCEPT !.pc = "done", !.logged = IF q.success THEN "succeed" ELSE "stale"]

\* handle_update_max_timestamp: the task is spawned, at once or behind the
\* one-second timer of the failpoint
HandleUpdateMaxTimestamp(t, initial_status, delay) ==
    /\ ts.tasks[t].pc = "idle"
    /\ TaskGoes(t, [NewTask EXCEPT !.pc = IF delay THEN "delayed" ELSE "load_status",
                                   !.initial_status = initial_status])
    /\ UNCHANGED batchVars

\* GLOBAL_TIMER_HANDLE.delay(deadline) completes
TimerFires(t) ==
    /\ ts.tasks[t].pc = "delayed"
    /\ TaskGoes(t, [ts.tasks[t] EXCEPT !.pc = "load_status"])
    /\ UNCHANGED batchVars

\* a loop test that goes on whatever the status is
LoadStatusIgnored(t) ==
    LET q == ts.tasks[t] IN
    /\ q.pc = "load_status"
    /\ TaskGoes(t, [q EXCEPT !.pc = "load_shutdown"])
    /\ UNCHANGED batchVars

\* while max_ts_sync_status.load(SeqCst) == initial_status ...
LoadStatus(t) ==
    LET q == ts.tasks[t] IN
    /\ q.pc = "load_status"
    /\ TaskGoes(t, IF ts.max_ts_sync_status = q.initial_status
                   THEN [q EXCEPT !.pc = "load_shutdown"]
                   ELSE Finish(q))
    /\ UNCHANGED batchVars

\* ... && !shutdown.load(Relaxed): the load returns the stored true only
\* once the store is visible to the task
LoadShutdown(t) ==
    LET q == ts.tasks[t] IN
    /\ q.pc = "load_shutdown"
    /\ TaskGoes(t, IF ts.shutdown /\ t \in ts.visible
                   THEN Finish(q)
                   ELSE [q EXCEPT !.pc = "fetch"])
    /\ UNCHANGED batchVars

\* causal_ts_provider.async_flush().await or pd_client.get_tso().await
\* completes, with a timestamp or with an error
Fetch(t, ok) ==
    LET q == ts.tasks[t] IN
    /\ q.pc = "fetch"
    /\ TaskGoes(t, IF ok
                   THEN [q EXCEPT !.pc = "update",
                                  !.fetched = IF ts.causal_ts_provider THEN "flush" ELSE "tso"]
                   ELSE [q EXCEPT !.pc = "load_status", !.retried = TRUE,
                                  !.fetched = "none", !.updated = FALSE])
    /\ UNCHANGED batchVars

\* concurrency_manager.update_max_ts(ts, "raftstore-v2")
UpdateMaxTs(t, ok) ==
    LET q == ts.tasks[t] IN
    /\ q.pc = "update"
    /\ TaskGoes(t, IF ok
                   THEN [q EXCEPT !.pc = "cas", !.updated = TRUE]
                   ELSE [q EXCEPT !.pc = "load_status", !.retried = TRUE,
                                  !.fetched = "none", !.updated = FALSE])
    /\ UNCHANGED batchVars

\* a store in the place of the compare_exchange
CompareExchangeStores(t) ==
    LET q == ts.tasks[t] IN
    /\ q.pc = "cas"
    /\ q.cas < MaxCas
    /\ ts' = [ts EXCEPT !.max_ts_sync_status = SetSynced(q.initial_status),
                        !.tasks[t] = Finish([q EXCEPT !.success = TRUE, !.cas = @ + 1])]
    /\ UNCHANGED batchVars

\* max_ts_sync_status.compare_exchange(initial_status, initial_status | 1,
\* SeqCst, SeqCst).is_ok(), and the break
CompareExchange(t) ==
    LET q == ts.tasks[t]
        ok == ts.max_ts_sync_status = q.initial_status
    IN
    /\ q.pc = "cas"
    /\ q.cas < MaxCas
    /\ ts' = [ts EXCEPT !.max_ts_sync_status = IF ok THEN SetSynced(q.initial_status) ELSE @,
                        !.tasks[t] = Finish([q EXCEPT !.success = ok, !.cas = @ + 1])]
    /\ UNCHANGED batchVars

\* another party stores a status
WriteStatus(v) ==
    /\ v # ts.max_ts_sync_status
    /\ ts' = [ts EXCEPT !.max_ts_sync_status = v]
    /\ UNCHANGED batchVars

\* the runner is shut down: shutdown.store(true)
SetShutdown ==
    /\ ~ts.shutdown
    /\ ts' = [ts EXCEPT !.shutdown = TRUE]
    /\ UNCHANGED batchVars

\* the store to shutdown becomes visible to task t
Propagate(t) ==
    /\ ts.shutdown
    /\ t \notin ts.visible
    /\ ts' = [ts EXCEPT !.visible = @ \cup {t}]
    /\ UNCHANGED batchVars

\* a step of the spawned future
TaskStep(t) ==
    \/ TimerFires(t)
    \/ LoadStatus(t)
    \/ LoadShutdown(t)
    \/ \E ok \in BOOLEAN : Fetch(t, ok)
    \/ \E ok \in BOOLEAN : UpdateMaxTs(t, ok)
    \/ CompareExchange(t)

(***************************************************************************)
(* Specifications.                                                         *)
(***************************************************************************)
\* create_system, and then one message sent to each FSM of c.presend: these
\* FSMs wait on the normal channel, the others are idle in their mailboxes
InitBatch(c) ==
    /\ cfg = c
    /\ sys = [state |-> "created", name_prefix |-> FALSE, workers |-> <<>>]
    /\ chan = [Normal |-> [i \in 1 .. Cardinality(c.presend) |-> NormalItem(i)],
               Low |-> <<>>]
    /\ mbox = [f \in AllFsm |-> IF f \in c.presend THEN <<1>> ELSE <<>>]
    /\ mbFsm = [f \in AllFsm |-> f \in ({CTL} \cup c.fsms) \ c.presend]
    /\ closed = [f \in AllFsm |-> FALSE]
    /\ stopped = [f \in AllFsm |-> FALSE]
    /\ prio = [f \in AllFsm |-> "Normal"]
    /\ sent = [f \in AllFsm |-> IF f \in c.presend THEN 1 ELSE 0]
    /\ notifying = [f \in AllFsm |-> 0]
    /\ destroyed = {}
    /\ pl = [p \in PollerIds |-> NewPoller("unstarted")]
    /\ hist = [ctl_len |-> NONE, returned_early |-> FALSE,
               observed |-> [f \in FsmIds |-> <<>>],
               look |-> [f \in FsmIds |-> 0]]

\* two normal pollers race for one normal FSM that producers keep waking up
ScenarioRace ==
    [pool_size |-> 2, low_priority_pool_size |-> 0, max_batch_size |-> 2,
     sizes |-> {2}, fsms |-> {1}, presend |-> {}, producers |-> {1},
     handler |-> {"stop"}]

\* two normal pollers and the control FSM
ScenarioControl ==
    [pool_size |-> 2, low_priority_pool_size |-> 0, max_batch_size |-> 2,
     sizes |-> {2}, fsms |-> {}, presend |-> {}, producers |-> {CTL},
     handler |-> {"stop"}]

\* one normal poller drives a batch of three normal FSMs
ScenarioRound ==
    [pool_size |-> 1, low_priority_pool_size |-> 0, max_batch_size |-> 3,
     sizes |-> {3}, fsms |-> {1, 2, 3}, presend |-> {1, 2, 3}, producers |-> {},
     handler |-> {"hot", "skip_end"}]

\* a normal and a low-priority poller, and FSMs that change their priority
ScenarioPriority ==
    [pool_size |-> 1, low_priority_pool_size |-> 1, max_batch_size |-> 2,
     sizes |-> {2}, fsms |-> {1}, presend |-> {1}, producers |-> {},
     handler |-> {"priority", "hot"}]

\* one normal poller, and producers that send while the round releases
ScenarioSkip ==
    [pool_size |-> 1, low_priority_pool_size |-> 0, max_batch_size |-> 2,
     sizes |-> {1, 2}, fsms |-> {1, 2}, presend |-> {1, 2}, producers |-> {1},
     handler |-> {"stop", "skip_end"}]

\* one normal poller and no low-priority one: FSMs received during a round
\* change their priority
ScenarioPriorityIntake ==
    [pool_size |-> 1, low_priority_pool_size |-> 0, max_batch_size |-> 2,
     sizes |-> {2}, fsms |-> {1, 2}, presend |-> {1, 2}, producers |-> {},
     handler |-> {"priority"}]

\* one normal poller with the control FSM and a normal FSM in its batch
ScenarioMixed ==
    [pool_size |-> 1, low_priority_pool_size |-> 0, max_batch_size |-> 2,
     sizes |-> {2}, fsms |-> {1}, presend |-> {1}, producers |-> {CTL},
     handler |-> {"skip_end"}]

Scenarios ==
    {ScenarioRace, ScenarioControl, ScenarioRound, ScenarioPriority, ScenarioSkip,
     ScenarioMixed, ScenarioPriorityIntake}

\* the batch system of scenario c; the PD worker has no task
InitWith(c) == InitBatch(c) /\ ts = NewTs(FALSE)

Init == \E c \in Scenarios : InitWith(c)

Next ==
    \/ \E f \in AllFsm : Send(f)
    \/ \E f \in AllFsm : Notify(f)
    \/ Spawn
    \/ Shutdown
    \/ Join
    \/ \E p \in PollerIds : FetchFsm(p)
    \/ \E p \in PollerIds : BlockingRecv(p)
    \/ \E p \in PollerIds : HandleControl(p)
    \/ \E p \in PollerIds : ControlDispose(p)
    \/ \E p \in PollerIds : ReleaseControlLen(p)
    \/ \E p \in PollerIds : ReleaseControlTake(p)
    \/ \E p \in PollerIds : HandleNormal(p)
    \/ \E p \in PollerIds : Intake(p)
    \/ \E p \in PollerIds : SkipEndSchedule(p)
    \/ \E p \in PollerIds : Reschedule(p)
    \/ \E p \in PollerIds : ReleaseLen(p)
    \/ \E p \in PollerIds : ReleaseTake(p)
    \/ \E p \in PollerIds : PollerExit(p)

Spec == Init /\ [][Next]_vars

\* the PD worker with or without a causal timestamp provider, next to a
\* batch system nobody drives
MaxTsInit == InitBatch(ScenarioControl) /\ \E causal \in BOOLEAN : ts = NewTs(causal)

MaxTsNext ==
    \/ \E t \in TaskIds, initial_status \in StatusValues, delay \in BOOLEAN :
          HandleUpdateMaxTimestamp(t, initial_status, delay)
    \/ \E t \in TaskIds : TimerFires(t)
    \/ \E t \in TaskIds : LoadStatus(t)
    \/ \E t \in TaskIds : LoadShutdown(t)
    \/ \E t \in TaskIds, ok \in BOOLEAN : Fetch(t, ok)
    \/ \E t \in TaskIds, ok \in BOOLEAN : UpdateMaxTs(t, ok)
    \/ \E t \in TaskIds : CompareExchange(t)
    \/ \E v \in StatusValues : WriteStatus(v)
    \/ SetShutdown
    \/ \E t \in TaskIds : Propagate(t)

MaxTsSpec == MaxTsInit /\ [][MaxTsNext]_vars

\* the runtime polls a spawned future whenever it can make progress, every
\* await of the task completes, and a store becomes visible to every thread
MaxTsFairSpec ==
    /\ MaxTsSpec
    /\ \A t \in TaskIds : WF_vars(TaskStep(t)) /\ WF_vars(Propagate(t))

(***************************************************************************)
(* Ownership of the FSMs.                                                  *)
(***************************************************************************)
\* the number of elements of the sequence s that satisfy Test
Count(s, Test(_)) == Cardinality({j \in DOMAIN s : Test(s[j])})

\* the number of items on the scheduler channels that carry FSM f
OnChannels(f) ==
    Count(chan.Normal, LAMBDA it : it.fsm = f) + Count(chan.Low, LAMBDA it : it.fsm = f)

\* the number of slots of poller p's batch that hold FSM f
InBatch(p, f) ==
    IF f = CTL THEN (IF pl[p].control THEN 1 ELSE 0)
    ELSE Count(pl[p].normals, LAMBDA slot : slot.fsm = f)

RECURSIVE Sum(_, _)
Sum(F(_), S) ==
    IF S = {} THEN 0
    ELSE LET x == CHOOSE y \in S : TRUE IN F(x) + Sum(F, S \ {x})

\* the number of places that hold FSM f
Locations(f) ==
    (IF mbFsm[f] THEN 1 ELSE 0) + OnChannels(f)
    + Sum(LAMBDA p : InBatch(p, f), PollerIds) + (IF f \in destroyed THEN 1 ELSE 0)

\* C1: in every reachable state each registered FSM is in exactly one place:
\* idle in its mailbox, on a scheduler channel, in one slot of one poller's
\* batch, or destroyed.
C1_UniqueOwnership == \A f \in Registered : Locations(f) = 1

\* a release lost the race: the poller is about to take the FSM back and
\* another thread has already taken it out of the mailbox
C1_Witness ==
    \E p \in PollerIds :
        /\ pl[p].pc = "rel_take"
        /\ ~mbFsm[pl[p].to_schedule.fsm]
        /\ pl[p].to_schedule.fsm \notin destroyed

(***************************************************************************)
(* Batch::release.                                                         *)
(***************************************************************************)
\* poller p holds FSM f in one of its slots
HeldBy(p, f) == InBatch(p, f) = 1

\* FSM f is owned by somebody else than poller p: its mailbox, a scheduler
\* channel, another poller's batch, or it was dropped by a closed mailbox
OwnedElsewhere(p, f) ==
    /\ InBatch(p, f) = 0
    /\ Locations(f) = 1

\* C2 as amended: after release has put the FSM back, a length equal to
\* expected_len makes release return None without a take, and the FSM is then
\* in exactly one place outside this batch (mailbox, scheduler channel,
\* another poller's batch, or dropped); a different length leads to take_fsm,
\* which either brings the FSM back into this batch with its policy cleared or
\* fails because another owner holds it.
C2_ReleaseProgress ==
    [][\A p \in PollerIds, f \in FsmIds :
        LET q == pl[p] IN
        (f = q.to_schedule.fsm) =>
            /\ (q.pc = "rel_len" /\ pl'[p] # q) =>
                 IF Len(mbox[f]) = q.to_schedule.policy.len
                 THEN pl'[p].pc # "rel_take" /\ OwnedElsewhere(p, f)'
                 ELSE pl'[p].pc = "rel_take" /\ OwnedElsewhere(p, f)'
            /\ (q.pc = "rel_take" /\ pl'[p] # q) =>
                 IF mbFsm[f]
                 THEN /\ HeldBy(p, f)' /\ Locations(f)' = 1
                      /\ \E j \in DOMAIN pl'[p].normals :
                            /\ pl'[p].normals[j].fsm = f
                            /\ pl'[p].normals[j].policy = NoPolicy
                 ELSE OwnedElsewhere(p, f)'
      ]_vars

\* the length equals expected_len although another poller fetched the FSM
\* and handled the message that had arrived meanwhile
C2_Witness ==
    \E p \in PollerIds, o \in PollerIds :
        /\ p # o
        /\ pl[p].pc = "rel_len"
        /\ Len(mbox[pl[p].to_schedule.fsm]) = pl[p].to_schedule.policy.len
        /\ HeldBy(o, pl[p].to_schedule.fsm)

\* C2 as stated: at the length check an equal length means that the mailbox
\* holds the FSM, and a take that fails means that a scheduler channel holds it
C2_Original ==
    \A p \in PollerIds :
        LET f == pl[p].to_schedule.fsm IN
        /\ (pl[p].pc = "rel_len" /\ Len(mbox[f]) = pl[p].to_schedule.policy.len)
              => (mbFsm[f] \/ f \in destroyed)
        /\ (pl[p].pc = "rel_take" /\ ~mbFsm[f])
              => (OnChannels(f) = 1 \/ f \in destroyed)

(***************************************************************************)
(* Shutdown.                                                               *)
(***************************************************************************)
\* C3 as amended: once shutdown has returned, every registered FSM is
\* destroyed, idle in its mailbox, or on a scheduler channel (where the exit
\* path of poll sends what is left in a batch); none is held by a batch.
C3_NoFsmInBatchAfterShutdown ==
    sys.state = "stopped" =>
        \A f \in Registered :
            /\ \A p \in PollerIds : InBatch(p, f) = 0
            /\ (IF mbFsm[f] THEN 1 ELSE 0) + OnChannels(f)
                 + (IF f \in destroyed THEN 1 ELSE 0) = 1

\* shutdown has returned and a normal FSM is left on a scheduler channel
C3_Witness ==
    /\ sys.state = "stopped"
    /\ \E f \in cfg.fsms : OnChannels(f) = 1

\* C3 as stated: once shutdown has returned, every FSM is destroyed or back in
\* its mailbox
C3_Original ==
    sys.state = "stopped" => \A f \in Registered : mbFsm[f] \/ f \in destroyed

\* C4: when shutdown has returned on a spawned system, every worker that
\* spawn started, normal or low priority, has left its poll loop and has been
\* joined.
C4_GracefulShutdown ==
    sys.state = "stopped" =>
        /\ sys.workers = <<>>
        /\ \A p \in Workers : Finished(p)

\* shutdown has returned on a system with normal and low-priority workers
C4_Witness ==
    /\ sys.state = "stopped"
    /\ cfg.pool_size > 0
    /\ cfg.low_priority_pool_size > 0
    /\ \A p \in Workers : pl[p].pc = "done"

(***************************************************************************)
(* The classification of a round.                                          *)
(***************************************************************************)
\* the round of poller p has classified its FSMs and has not yet disposed of
\* any of them
Classified(p) ==
    LET q == pl[p] IN
    \/ q.pc = "intake"
    \/ q.pc = "skip" /\ q.i = 1
    \/ /\ q.pc = "resched"
       /\ q.i = Len(q.reschedule_fsms)
       /\ \A j \in DOMAIN q.hooks : q.hooks[j] # "skip"

\* the slots of p's batch whose FSM the timer check finds (or would find) hot
\* and that is not stopped
HotSlots(p) ==
    {j \in DOMAIN pl[p].normals :
        /\ pl[p].normals[j].fsm # NONE
        /\ pl[p].normals[j].hot
        /\ ~stopped[pl[p].normals[j].fsm]}

\* those of them whose priority is the priority of p's handler
HotSlotsOfPriority(p) ==
    {j \in HotSlots(p) : prio[pl[p].normals[j].fsm] = HandlerPriority(p)}

\* the slots of S that the round marked Schedule
Scheduled(p, S) == {j \in S : pl[p].normals[j].policy = Schedule}

\* C5 as amended: of the K FSMs of a batch that are hot, not stopped and of
\* the handler's priority, the round marks exactly floor(K/2) with policy
\* Schedule; the others keep what the handler's result asks for.
C5_HotRebalancing ==
    \A p \in PollerIds :
        Classified(p) =>
            /\ Cardinality(Scheduled(p, HotSlotsOfPriority(p)))
                 = Cardinality(HotSlotsOfPriority(p)) \div 2
            /\ \A j \in HotSlotsOfPriority(p) \ Scheduled(p, HotSlotsOfPriority(p)) :
                 pl[p].normals[j].policy.kind \in {"None", "Release"}

\* three hot FSMs in one batch, one of them marked Schedule
C5_Witness ==
    \E p \in PollerIds :
        /\ Classified(p)
        /\ Cardinality(HotSlotsOfPriority(p)) = 3
        /\ Cardinality(Scheduled(p, HotSlotsOfPriority(p))) = 1

\* C5 as stated: of the K FSMs that are hot and not stopped, exactly
\* floor(K/2) are marked Schedule
C5_Original ==
    \A p \in PollerIds :
        Classified(p) =>
            Cardinality(Scheduled(p, HotSlots(p))) = Cardinality(HotSlots(p)) \div 2

(***************************************************************************)
(* skip_end.                                                               *)
(***************************************************************************)
\* handler.end of poller p's round has just run on pl[p].normals
AtEnd(p) ==
    LET q == pl[p] IN
    /\ q.pc = "resched"
    /\ q.hooks # <<>>
    /\ q.hooks[Len(q.hooks)] = "end"

\* the slot holds no FSM
IsNone(slot) == slot.fsm = NONE

C7_HandleControlContract ==
    [][\A p \in PollerIds :
          (pl[p].pc = "control" /\ pl'[p] # pl[p]) =>
              (hist.ctl_len = NONE \/ Len(mbox[CTL]) > hist.ctl_len)
      ]_vars

(***************************************************************************)
(* The order of a round.                                                   *)
(***************************************************************************)
\* the place of a hook or stage in the round
Rank(name) ==
    CASE name = "begin" -> 1
      [] name = "handle_control" -> 2
      [] name = "handle_normal" -> 3
      [] name = "light_end" -> 4
      [] name = "skip" -> 5
      [] name = "end" -> 6
      [] name = "resched" -> 7

\* C8: what a poller has run so far in its round is in the fixed order begin,
\* handle_control, handle_normal, light_end, disposition of the skip_end
\* FSMs, end, final disposition with swap_reclaim: the round starts with
\* begin, no stage runs after a later one, and handle_control is reached
\* only with a control FSM in the batch.
C8_HookOrder ==
    \A p \in PollerIds :
        LET h == pl[p].hooks IN
        /\ h # <<>> => h[1] = "begin"
        /\ \A j \in 1 .. (Len(h) - 1) : Rank(h[j]) < Rank(h[j + 1])
        /\ pl[p].pc \in {"control", "normal", "intake", "skip", "resched"} => h # <<>>
        /\ pl[p].pc = "control" => pl[p].control

\* a round that ran every hook and is about to start the final disposition
C8_Witness ==
    \E p \in PollerIds :
        /\ pl[p].pc = "resched"
        /\ pl[p].hooks = <<"begin", "handle_control", "handle_normal", "light_end",
                           "skip", "end">>

(***************************************************************************)
(* The order of handle_normal.                                             *)
(***************************************************************************)
\* the FSMs of the first n slots, in slot order
SlotPrefix(q, n) == [j \in 1 .. n |-> q.normals[j].fsm]

\* the sequence has no element twice
NoDuplicates(s) == \A j, k \in DOMAIN s : s[j] = s[k] => j = k

\* the place of f in the sequence s
IndexOf(s, f) == CHOOSE j \in DOMAIN s : s[j] = f

\* the slots of the batch hold the FSMs in the order in which they entered it
InsertionOrdered(q) ==
    \A j, k \in DOMAIN q.normals :
        (j < k /\ q.normals[j].fsm # NONE /\ q.normals[k].fsm # NONE)
            => IndexOf(q.order, q.normals[j].fsm) < IndexOf(q.order, q.normals[k].fsm)

\* C9 as amended: in each round handle_normal is called exactly once for
\* every normal FSM in the batch, in the order of the slots: the held FSMs by
\* ascending index, then each FSM received during the round; the FSMs that
\* are in the batch when the round disposes of them have all been handled.
C9_HandleNormalOrder ==
    \A p \in PollerIds :
        LET q == pl[p] IN
        /\ NoDuplicates(q.handled)
        /\ q.pc = "normal" => q.handled = SlotPrefix(q, q.i - 1)
        /\ q.pc = "intake" =>
              q.fsm_cnt = Len(q.normals) /\ q.handled = SlotPrefix(q, q.fsm_cnt)
        /\ q.pc \in {"skip", "resched", "rel_len", "rel_take"} =>
              \A f \in Held(q) : \E j \in DOMAIN q.handled : q.handled[j] = f

\* the second round over a batch that swap_reclaim has permuted: the FSM that
\* entered last is handled first
C9_Witness ==
    \E p \in PollerIds :
        /\ pl[p].pc = "normal"
        /\ pl[p].i = 2
        /\ Len(pl[p].handled) = 1
        /\ ~InsertionOrdered(pl[p])

\* C9 as stated: handle_normal visits the FSMs in the order in which they
\* entered the batch
C9_Original ==
    \A p \in PollerIds :
        pl[p].pc \in {"normal", "intake"} => InsertionOrdered(pl[p])

(***************************************************************************)
(* Batch::remove.                                                          *)
(***************************************************************************)
\* the slot of poller record q that holds FSM f
SlotOf(q, f) == q.normals[CHOOSE j \in DOMAIN q.normals : q.normals[j].fsm = f]

\* C10 as amended: an FSM found stopped after handle_normal gets policy
\* Remove; when schedule reaches it, it leaves the batch into its mailbox
\* (the destroy path) if its mailbox is empty, and otherwise it stays in its
\* slot of this batch with its policy cleared and its mailbox reattached.
C10_RemoveStopped ==
    [][\A p \in PollerIds, f \in FsmIds :
        LET q == pl[p] IN
        /\ (q.pc \in {"normal", "intake"} /\ pl'[p].handled = Append(q.handled, f)
              /\ stopped'[f])
             => SlotOf(pl'[p], f).policy = Remove
        /\ (/\ q.pc = "resched"
            /\ pl'[p] # q
            /\ q.normals[q.reschedule_fsms[q.i]] = [fsm |-> f, policy |-> Remove,
                                                   hot |-> q.normals[q.reschedule_fsms[q.i]].hot])
             => IF mbox[f] = <<>>
                THEN /\ InBatch(p, f)' = 0
                     /\ mbFsm'[f] \/ f \in destroyed'
                ELSE /\ q.reschedule_fsms[q.i] \in DOMAIN pl'[p].normals
                     /\ pl'[p].normals[q.reschedule_fsms[q.i]].fsm = f
                     /\ pl'[p].normals[q.reschedule_fsms[q.i]].policy = NoPolicy
                     /\ ~mbFsm'[f]
                     /\ f \notin destroyed'
                     /\ Locations(f)' = 1
      ]_vars

\* a stopped FSM whose mailbox still holds messages was kept by remove
C10_Witness ==
    \E p \in PollerIds, f \in FsmIds :
        /\ pl[p].pc \in {"resched", "fetch"}
        /\ HeldBy(p, f)
        /\ stopped[f]
        /\ mbox[f] # <<>>
        /\ SlotOf(pl[p], f).policy = NoPolicy
        /\ \E j \in DOMAIN pl[p].hooks : pl[p].hooks[j] = "resched"

\* C10 as stated: a stopped FSM that remove kept stays in the same batch slot
\* until it is handled again in the next round
C10_Original ==
    [][\A p \in PollerIds, j \in 1 .. 3 :
        LET q == pl[p] IN
        (/\ q.pc \in {"resched", "rel_len", "rel_take", "fetch", "exit"}
         /\ j \in DOMAIN q.normals
         /\ q.normals[j].fsm # NONE
         /\ q.normals[j].policy = NoPolicy
         /\ stopped[q.normals[j].fsm])
          => /\ j \in DOMAIN pl'[p].normals
             /\ pl'[p].normals[j].fsm = q.normals[j].fsm
      ]_vars

(***************************************************************************)
(* Priority change.                                                        *)
(***************************************************************************)
\* handle_normal of poller p has just run on f (primed state) and has left
\* it not stopped and with a priority that is not the handler's
MismatchAfterHandle(p, f) ==
    /\ pl'[p].handled = Append(pl[p].handled, f)
    /\ ~stopped'[f]
    /\ prio'[f] # HandlerPriority(p)

\* C11 as amended: when handle_normal in the first loop of a round (over the
\* FSMs in the batch when the round began) leaves a non-stopped FSM with a
\* priority that is not the handler's, the FSM gets policy Schedule; the final
\* disposition takes it out of the batch and appends it to the channel of its
\* current priority; and a poller takes an FSM only from the channel of its
\* own priority.
C11_PriorityChange ==
    [][\A p \in PollerIds, f \in FsmIds :
        LET q == pl[p] IN
        /\ (q.pc = "normal" /\ MismatchAfterHandle(p, f))
             => SlotOf(pl'[p], f).policy = Schedule
        /\ (/\ q.pc = "resched"
            /\ pl'[p] # q
            /\ q.normals[q.reschedule_fsms[q.i]].fsm = f
            /\ q.normals[q.reschedule_fsms[q.i]].policy = Schedule)
             => /\ InBatch(p, f)' = 0
                /\ chan'[prio[f]] = Append(chan[prio[f]], NormalItem(f))
        /\ (q.pc \in {"fetch", "recv", "intake"} /\ InBatch(p, f) = 0 /\ InBatch(p, f)' = 1)
             => /\ chan[HandlerPriority(p)] # <<>>
                /\ Head(chan[HandlerPriority(p)]) = NormalItem(f)
                /\ chan'[HandlerPriority(p)] = Tail(chan[HandlerPriority(p)])
      ]_vars

\* an FSM whose priority changed to low under a normal handler waits on the
\* low channel while the system runs
C11_Witness ==
    /\ sys.state = "running"
    /\ \E f \in FsmIds :
         /\ prio[f] = "Low"
         /\ \E j \in DOMAIN chan.Low : chan.Low[j] = NormalItem(f)

\* C11 as stated: whenever handle_normal leaves a held, non-stopped FSM with
\* a priority that is not the handler's, the FSM gets policy Schedule in that
\* round
C11_Original ==
    [][\A p \in PollerIds, f \in FsmIds :
        (pl[p].pc \in {"normal", "intake"} /\ MismatchAfterHandle(p, f))
            => SlotOf(pl'[p], f).policy = Schedule
      ]_vars

(***************************************************************************)
(* Idempotent shutdown.                                                    *)
(***************************************************************************)
\* C12: a shutdown call on a system that was never spawned, or after a
\* completed shutdown, returns at its first test: it is recorded as returned
\* early only there, and the step changes nothing of the system, the
\* channels (no sentinel is broadcast), the mailboxes and the pollers (nothing
\* is joined); a shutdown call in such a state is never the start of a real
\* shutdown.
C12_ShutdownIdempotent ==
    [][/\ (hist'.returned_early /\ ~hist.returned_early)
           => /\ ~sys.name_prefix
              /\ sys.state \in {"created", "stopped"}
              /\ UNCHANGED <<cfg, ts, sys, chan, mailVars, pl>>
       /\ (~sys.name_prefix /\ sys.state # "joining")
           => /\ sys'.state # "joining"
              /\ \A c \in Priorities :
                    Count(chan'[c], LAMBDA x : x = EmptyItem)
                        = Count(chan[c], LAMBDA x : x = EmptyItem)
              /\ closed' = closed
      ]_vars

\* a second shutdown call has returned early after a completed shutdown
C12_Witness ==
    /\ sys.state = "stopped"
    /\ hist.returned_early

\* a shutdown call has returned early on a system that was never spawned
C12_WitnessNeverSpawned ==
    /\ sys.state = "created"
    /\ hist.returned_early

(***************************************************************************)
(* Message ordering.                                                       *)
(***************************************************************************)
\* this step is a call of handle_normal on f by poller p: in the first loop
\* on the slot at index i, or in the intake on the FSM it has just received
HandlesNormal(p, f) ==
    LET q == pl[p] IN
    /\ pl'[p] # q
    /\ \/ /\ q.pc = "normal"
          /\ q.normals[q.i].fsm = f
       \/ /\ q.pc = "intake"
          /\ Receiver(p) # <<>>
          /\ Head(Receiver(p)) = NormalItem(f)

Releasing(p, f) ==
    /\ pl[p].pc \in {"rel_len", "rel_take"}
    /\ pl[p].to_schedule.fsm = f

\* a message of f's mailbox that was sent after the handler's last look
Unseen(f) == {j \in DOMAIN mbox[f] : mbox[f][j] > hist.look[f]}

\* C14: in every reachable state, an FSM that is idle in its mailbox while no
\* release of it and no producer notification is in progress has no message
\* in its mailbox that was sent after the handler's last look: a message
\* enqueued between that look and the release leaves the FSM in a batch or
\* on a scheduler channel once the release and the notification are done.
C14_NoLostWakeup ==
    \A f \in FsmIds :
        (/\ mbFsm[f]
         /\ notifying[f] = 0
         /\ \A p \in PollerIds : ~Releasing(p, f))
            => Unseen(f) = {}

\* a message arrived in the window and its producer found the FSM absent;
\* the release has then put the FSM back and seen a length that is not the
\* expected one, and is about to take the FSM back
C14_Witness ==
    \E f \in FsmIds, p \in PollerIds :
        /\ Releasing(p, f)
        /\ pl[p].pc = "rel_take"
        /\ mbFsm[f]
        /\ notifying[f] = 0
        /\ Unseen(f) # {}

(***************************************************************************)
(* Cooperative shutdown of one worker.                                     *)
(***************************************************************************)
\* this step is a receive of the shutdown sentinel by poller p
ReceivesSentinel(p) ==
    /\ pl[p].pc \in {"fetch", "recv", "intake"}
    /\ pl'[p] # pl[p]
    /\ Receiver(p) # <<>>
    /\ Head(Receiver(p)) = EmptyItem
    /\ chan'[HandlerPriority(p)] = Tail(Receiver(p))

\* this step is a fetch_fsm of poller p that returns true: a round begins
BeginsRound(p) ==
    /\ pl[p].pc \in {"fetch", "recv"}
    /\ pl'[p].pc \notin {"fetch", "recv", "exit"}

\* the stages of a round after the intake, and the end of poll
Leaving == {"skip", "resched", "rel_len", "rel_take", "exit", "done"}

\* C15 as amended: a worker that receives the sentinel in fetch_fsm leaves
\* the poll loop at once (fetch_fsm returns false); a worker that receives it
\* in the mid-round intake clears run, finishes that round and leaves the
\* loop without another fetch_fsm; in both cases no further round begins,
\* whatever the batch contains. While the control FSM is held fetch_fsm
\* returns true without receiving anything.
C15_CooperativeShutdown ==
    [][\A p \in PollerIds :
        /\ ReceivesSentinel(p) =>
              IF pl[p].pc = "intake"
              THEN ~pl'[p].run /\ pl'[p].pc \in Leaving
              ELSE pl'[p].pc = "exit"
        /\ ~pl[p].run => ~pl'[p].run /\ pl'[p].pc \in Leaving
        /\ pl[p].pc \in {"exit", "done"} => pl'[p].pc \in {"exit", "done"}
        /\ (pl[p].pc = "fetch" /\ pl[p].control /\ pl'[p] # pl[p])
              => BeginsRound(p) /\ chan' = chan
      ]_vars

\* a worker that holds the control FSM has received the sentinel in the
\* intake and is finishing its round
C15_Witness ==
    \E p \in PollerIds :
        /\ ~pl[p].run
        /\ pl[p].control
        /\ pl[p].pc \in {"skip", "resched", "rel_len", "rel_take"}

\* C15 as stated: once a sentinel is on a worker's channel the worker begins
\* no further round
C15_Original ==
    [][\A p \in PollerIds :
        (\E j \in DOMAIN Receiver(p) : Receiver(p)[j] = EmptyItem) => ~BeginsRound(p)
      ]_vars

(***************************************************************************)
(* The assertion of Batch::push.                                           *)
(***************************************************************************)
\* C16: in every reachable state no poller has pushed a Control item into a
\* batch whose control slot was occupied (assert_failed records a failure of
\* the assertion in Batch::push, in fetch_fsm or in the intake), and a
\* Control item waits on a channel only while no batch holds the control FSM.
C16_ControlSlotAssertion ==
    /\ \A p \in PollerIds : ~pl[p].assert_failed
    /\ OnChannels(CTL) > 0 => \A p \in PollerIds : ~pl[p].control

\* a poller has received the control FSM from the channel while another
\* poller, which released it and lost the race with a producer, is still in
\* release_control
C16_Witness ==
    \E p \in PollerIds, o \in PollerIds :
        /\ p # o
        /\ pl[p].control
        /\ pl[o].pc = "ctl_take"

(***************************************************************************)
(* Batch::schedule when the FSM is not given away.                         *)
(***************************************************************************)
\* the indices a batch can have
SlotIds == 1 .. Cardinality(FsmIds)

\* the index the next schedule call of poller p is made with
ScheduledIndex(p) ==
    IF pl[p].pc = "skip" THEN pl[p].to_skip_end[pl[p].i]
    ELSE pl[p].reschedule_fsms[pl[p].i]

\* C17: when schedule(i) runs release and take_fsm returns the FSM, or runs
\* remove on an FSM whose mailbox is not empty, slot i holds the same FSM
\* again with its policy cleared and the FSM is nowhere else; when slot i is
\* empty or its policy is unset, schedule changes neither the slots (the
\* swap_reclaim that follows in the final loop removes an empty slot) nor
\* the channels nor the mailboxes; and an FSM leaves a batch only through a
\* schedule call on its own slot with a policy set, or when poll ends.
C17_FailedReschedule ==
    [][\A p \in PollerIds, idx \in SlotIds :
        LET q == pl[p] IN
        /\ (q.pc = "rel_take" /\ pl'[p] # q /\ idx = q.idx /\ mbFsm[q.to_schedule.fsm])
             => /\ idx \in DOMAIN pl'[p].normals
                /\ pl'[p].normals[idx] = [q.to_schedule EXCEPT !.policy = NoPolicy]
                /\ \A f \in FsmIds : f = q.to_schedule.fsm => Locations(f)' = 1
        /\ (q.pc \in {"skip", "resched"} /\ pl'[p] # q /\ idx = ScheduledIndex(p))
             => LET slot == q.normals[idx] IN
                /\ (slot.fsm # NONE /\ slot.policy = Remove /\ mbox[slot.fsm] # <<>>)
                     => /\ idx \in DOMAIN pl'[p].normals
                        /\ pl'[p].normals[idx] = [slot EXCEPT !.policy = NoPolicy]
                        /\ UNCHANGED <<chan, mailVars>>
                /\ slot.fsm = NONE
                     => /\ pl'[p].normals = IF q.pc = "skip" THEN q.normals
                                            ELSE SwapReclaim(q.normals, idx)
                        /\ UNCHANGED <<chan, mailVars>>
                /\ (slot.fsm # NONE /\ slot.policy = NoPolicy)
                     => /\ pl'[p].normals = q.normals
                        /\ UNCHANGED <<chan, mailVars>>
        /\ \A f \in FsmIds :
             (InBatch(p, f) = 1 /\ idx \in DOMAIN q.normals /\ q.normals[idx].fsm = f
                 /\ InBatch(p, f)' = 0)
             => \/ q.pc = "exit"
                \/ /\ q.pc \in {"skip", "resched"}
                   /\ idx = ScheduledIndex(p)
                   /\ q.normals[idx].policy # NoPolicy
      ]_vars

\* the final loop is about to call schedule on a slot whose FSM came back in
\* the skip_end loop and has its policy cleared
C17_Witness ==
    \E p \in PollerIds :
        /\ pl[p].pc = "resched"
        /\ pl[p].normals[ScheduledIndex(p)].fsm # NONE
        /\ pl[p].normals[ScheduledIndex(p)].policy = NoPolicy

(***************************************************************************)
(* End-of-round compaction.                                                *)
(***************************************************************************)
\* the entries of reschedule_fsms the final loop has still to process:
\* 1 .. i before a schedule call, 1 .. i - 1 within one
ToProcess(q) ==
    IF q.pc = "resched" THEN 1 .. q.i
    ELSE IF q.pc \in {"rel_len", "rel_take"} /\ q.ret = "resched" THEN 1 .. (q.i - 1)
    ELSE {}

\* what holds of poller p's batch in every state
Compacted(p) ==
    LET q == pl[p]
        rs == q.reschedule_fsms
    IN
    /\ \A j, k \in DOMAIN rs : j < k => rs[j] < rs[k]
    /\ \A k \in ToProcess(q) :
          /\ rs[k] \in DOMAIN q.normals
          /\ rs[k] \in DOMAIN q.handled
          /\ q.normals[rs[k]].fsm \in {NONE, q.handled[rs[k]]}
    /\ q.pc \notin {"skip", "resched", "rel_len", "rel_take"}
          => \A j \in DOMAIN q.normals : q.normals[j].fsm # NONE
    /\ \A j, k \in DOMAIN q.normals :
          (q.normals[j].fsm = q.normals[k].fsm /\ q.normals[j].fsm # NONE) => j = k

\* C18: reschedule_fsms is in ascending order and the final loop walks it
\* from its end, so every index it has still to process refers to the slot of
\* the FSM that was classified at that index (the slot holds that FSM, or is
\* empty if the skip_end loop gave it away); outside the disposition
\* loops the vector has no empty slot; no FSM is in two slots; and a step of
\* the final loop takes out of the batch at most the FSM of the slot it
\* schedules and adds at most the FSM its release took back.
C18_Compaction ==
    [][\A p \in PollerIds :
        /\ Compacted(p)'
        /\ (pl[p].pc \in {"resched", "rel_len", "rel_take"} /\ pl'[p] # pl[p]) =>
              \A f \in FsmIds :
                /\ (InBatch(p, f) = 1 /\ InBatch(p, f)' = 0)
                     => /\ pl[p].pc = "resched"
                        /\ pl[p].normals[ScheduledIndex(p)].fsm = f
                /\ (InBatch(p, f) = 0 /\ InBatch(p, f)' = 1)
                     => /\ pl[p].pc = "rel_take"
                        /\ pl[p].to_schedule.fsm = f
      ]_vars

\* the final loop has reclaimed the slot of a larger index and the next
\* index it processes still holds the FSM classified there
C18_Witness ==
    \E p \in PollerIds :
        LET q == pl[p] IN
        /\ q.pc = "resched"
        /\ q.i < Len(q.reschedule_fsms)
        /\ Len(q.normals) < Len(q.handled)
        /\ q.normals[ScheduledIndex(p)].fsm = q.handled[ScheduledIndex(p)]

(***************************************************************************)
(* Classification precedence.                                              *)
(***************************************************************************)
\* the elements of a sequence
Range(s) == {s[j] : j \in DOMAIN s}

\* C19: a step of the first loop on the FSM f at index i leaves slot i with
\* exactly one outcome, by precedence: f stopped: Remove; else priority not
\* the handler's: Schedule; else f hot and the hot counter, which this FSM
\* has just incremented, even: Schedule, also when the handler returned StopAt
\* with skip_end; else Release(progress) or no policy, and Release(progress)
\* when the handler returned StopAt with skip_end. The hot counter grows by
\* one exactly when f is hot, not stopped and of the handler's priority. Slot
\* i has a policy if and only if i is in reschedule_fsms, which grows by i
\* alone.
C19_ClassificationPrecedence ==
    [][\A p \in PollerIds, i \in SlotIds, f \in FsmIds :
        LET q == pl[p] IN
        (q.pc = "normal" /\ pl'[p] # q /\ i = q.i /\ f = q.normals[q.i].fsm) =>
            /\ i \in DOMAIN pl'[p].normals
            /\ LET r == pl'[p]
                   pol == r.normals[i].policy
                   counted == ~stopped'[f] /\ prio'[f] = HandlerPriority(p) /\ r.normals[i].hot
               IN
               /\ r.hot_fsm_count = q.hot_fsm_count + (IF counted THEN 1 ELSE 0)
               /\ IF stopped'[f] THEN pol = Remove
                  ELSE IF prio'[f] # HandlerPriority(p) THEN pol = Schedule
                  ELSE IF r.normals[i].hot /\ r.hot_fsm_count % 2 = 0 THEN pol = Schedule
                  ELSE /\ pol \in {NoPolicy, Release(Len(mbox'[f]))}
                       /\ i \in r.skip_req => pol # NoPolicy /\ i \in Range(r.to_skip_end)
               /\ pol # NoPolicy <=> i \in Range(r.reschedule_fsms)
               /\ r.reschedule_fsms \in {q.reschedule_fsms, Append(q.reschedule_fsms, i)}
      ]_vars

\* the handler returned StopAt with skip_end for a hot FSM of its priority
\* and the even hot counter has given the FSM policy Schedule
C19_Witness ==
    \E p \in PollerIds, j \in SlotIds :
        /\ pl[p].pc \in {"normal", "intake"}
        /\ j \in DOMAIN pl[p].normals
        /\ j \in pl[p].skip_req
        /\ pl[p].normals[j].hot
        /\ pl[p].normals[j].policy = Schedule
        /\ pl[p].hot_fsm_count = 2

(***************************************************************************)
(* Disposition of the control FSM.                                         *)
(***************************************************************************)
\* the control FSM has been handed to its mailbox
ControlReleased == mbFsm[CTL] \/ CTL \in destroyed

\* C20 as amended: after handle_control, a stopped control FSM goes to
\* remove_control, which hands it to the control mailbox only when that
\* mailbox is empty and otherwise keeps it in the batch; else Some(len) leads
\* to release_control(len), which hands the FSM to the mailbox and, when the
\* mailbox length equals len, does not take it back (the FSM is then in one
\* place outside this batch), and otherwise calls take_fsm and keeps the FSM
\* if take_fsm returned it; else the control FSM stays in the batch. The
\* control FSM leaves a batch only in remove_control or release_control, or
\* when poll ends.
C20_ControlDisposition ==
    [][\A p \in PollerIds :
        LET q == pl[p] IN
        /\ (q.pc = "control" /\ pl'[p] # q) =>
              IF stopped'[CTL] \/ pl'[p].len # NONE
              THEN pl'[p].pc = "ctl_dispose" /\ pl'[p].control
              ELSE pl'[p].pc # "ctl_dispose" /\ pl'[p].control
        /\ (q.pc = "ctl_dispose" /\ pl'[p] # q) =>
              IF stopped[CTL]
              THEN IF mbox[CTL] = <<>>
                   THEN ~pl'[p].control /\ ControlReleased'
                   ELSE pl'[p].control /\ UNCHANGED <<mbFsm, destroyed>>
              ELSE pl'[p].pc = "ctl_len" /\ ~pl'[p].control /\ ControlReleased'
        /\ (q.pc = "ctl_len" /\ pl'[p] # q) =>
              IF Len(mbox[CTL]) = q.len
              THEN /\ pl'[p].pc # "ctl_take"
                   /\ ~pl'[p].control
                   /\ Locations(CTL)' = 1
                   /\ UNCHANGED mbFsm
              ELSE pl'[p].pc = "ctl_take"
        /\ (q.pc = "ctl_take" /\ pl'[p] # q) =>
              /\ pl'[p].control = mbFsm[CTL]
              /\ ~mbFsm'[CTL]
        /\ (q.control /\ ~pl'[p].control) => q.pc \in {"ctl_dispose", "exit"}
      ]_vars

\* a stopped control FSM whose mailbox is not empty has been kept in the
\* batch by remove_control
C20_Witness ==
    \E p \in PollerIds :
        /\ pl[p].control
        /\ stopped[CTL]
        /\ mbox[CTL] # <<>>
        /\ pl[p].hooks # <<>>
        /\ pl[p].hooks[Len(pl[p].hooks)] = "handle_control"
        /\ pl[p].pc \notin {"control", "ctl_dispose"}

\* C20 as stated: when release_control finds the mailbox length equal to len,
\* the FSM is in the (open) control mailbox
C20_Original ==
    [][\A p \in PollerIds :
        (/\ pl[p].pc = "ctl_len"
         /\ pl'[p] # pl[p]
         /\ ~closed[CTL]
         /\ Len(mbox[CTL]) = pl[p].len) => mbFsm'[CTL]
      ]_vars

(***************************************************************************)
(* The cap of the intake.                                                  *)
(***************************************************************************)
\* poller p is inside a round
InRound(p) == pl[p].pc \notin {"unstarted", "fetch", "recv", "exit", "done", "panicked"}

\* C21: the step that begins a round leaves every FSM in the batch and sets
\* the cap of the round to max(M, n0), M the max_batch_size after the callback
\* of begin and n0 the number of normal FSMs the round starts with; the cap
\* and M do not change within the round; the first loop neither adds nor
\* removes a slot, so it handles all n0 FSMs; and the intake adds a normal
\* FSM only to a batch of fewer than max(M, n0) normal FSMs.
C21_IntakeCap ==
    [][\A p \in PollerIds :
        LET q == pl[p] IN
        /\ BeginsRound(p) =>
              /\ Len(pl'[p].normals) >= Len(q.normals)
              /\ pl'[p].batch_cap = Max(pl'[p].max_batch_size, Len(pl'[p].normals))
        /\ (InRound(p) /\ pl'[p] # q) =>
              /\ pl'[p].batch_cap = q.batch_cap
              /\ pl'[p].max_batch_size = q.max_batch_size
        /\ (q.pc = "normal" /\ pl'[p] # q) =>
              /\ Len(pl'[p].normals) = Len(q.normals)
              /\ pl'[p].pc = "normal" <=> q.i < Len(q.normals)
        /\ (q.pc = "intake" /\ Len(pl'[p].normals) > Len(q.normals)) =>
              /\ Len(q.normals) < q.batch_cap
              /\ Len(pl'[p].normals) = Len(q.normals) + 1
      ]_vars

\* a round that started with two FSMs although the max_batch_size read by
\* the callback of begin is one: the second FSM is about to be handled
C21_Witness ==
    \E p \in PollerIds :
        /\ pl[p].pc = "normal"
        /\ pl[p].max_batch_size = 1
        /\ pl[p].batch_cap = 2
        /\ Len(pl[p].normals) = 2
        /\ pl[p].i = 2

(***************************************************************************)
(* The mid-round intake.                                                   *)
(***************************************************************************)
\* C22: an iteration of the intake that finds the channel empty ends the
\* intake; one that receives the shutdown sentinel clears run and ends it;
\* one that receives the control FSM puts it into the control slot and ends
\* it, and no call of handle_control follows in that round; one that receives a normal FSM f
\* appends f, calls handle_normal on it at once and gives it Remove if it
\* is stopped and else Release(progress) or no policy, never Schedule, and
\* goes on while the batch is below its cap. A round that begins with the
\* control FSM in the batch goes from begin to handle_control.
C22_MidRoundIntake ==
    [][\A p \in PollerIds :
        LET q == pl[p]
            r == pl'[p]
            n == Len(q.normals)
        IN
        /\ (q.pc = "intake" /\ r # q) =>
             IF Receiver(p) = <<>>
             THEN r.pc # "intake" /\ r.normals = q.normals /\ r.control = q.control
             ELSE CASE Head(Receiver(p)).type = "Empty" ->
                         /\ ~r.run
                         /\ r.pc \in Leaving
                         /\ r.normals = q.normals /\ r.control = q.control
                    [] Head(Receiver(p)).type = "Control" ->
                         /\ r.control /\ r.run
                         /\ r.pc \notin {"intake", "control", "ctl_dispose"}
                         /\ r.normals = q.normals
                         /\ r.pc # "fetch" =>
                              Count(r.hooks, LAMBDA h : h = "handle_control")
                                = Count(q.hooks, LAMBDA h : h = "handle_control")
                    [] OTHER ->
                         \A f \in FsmIds : Head(Receiver(p)) = NormalItem(f) =>
                            /\ Len(r.normals) = n + 1
                            /\ r.normals[n + 1].fsm = f
                            /\ ~r.normals[n + 1].hot
                            /\ r.pc # "fetch" => r.handled = Append(q.handled, f)
                            /\ IF stopped'[f] THEN r.normals[n + 1].policy = Remove
                               ELSE r.normals[n + 1].policy
                                        \in {NoPolicy, Release(Len(mbox'[f]))}
                            /\ r.normals[n + 1].policy # NoPolicy
                                  <=> (n + 1) \in Range(r.reschedule_fsms)
                            /\ r.pc = "intake" <=> n + 1 < q.batch_cap
        /\ (BeginsRound(p) /\ r.control) =>
             r.pc = "control" /\ r.hooks = <<"begin">> /\ r.handled = <<>>
      ]_vars

\* the control FSM arrived during the intake of a round that had no control
\* FSM: the round goes on to its end without a call of handle_control
C22_Witness ==
    \E p \in PollerIds :
        /\ pl[p].control
        /\ pl[p].pc \in {"skip", "resched", "rel_len", "rel_take"}
        /\ pl[p].handled # <<>>
        /\ \A j \in DOMAIN pl[p].hooks : pl[p].hooks[j] # "handle_control"

(***************************************************************************)
(* The suspension point of fetch_fsm.                                      *)
(***************************************************************************)
\* C23: a poller calls handler.pause() and blocks in recv (pc "recv") only
\* from fetch_fsm, with an empty batch and after try_recv found the channel
\* empty, and its batch is empty as long as it is blocked; the blocking recv
\* returns only with an item; whenever fetch_fsm returns true (a round
\* begins) the batch holds an FSM; and fetch_fsm returns false only after it
\* received the shutdown sentinel, without the control FSM in the batch.
C23_FetchSuspension ==
    [][\A p \in PollerIds :
        LET q == pl[p]
            r == pl'[p]
        IN
        /\ (r.pc = "recv" /\ q.pc # "recv") =>
              /\ q.pc = "fetch"
              /\ BatchIsEmpty(q)
              /\ Receiver(p) = <<>>
        /\ r.pc = "recv" => BatchIsEmpty(r)
        /\ (q.pc = "recv" /\ r # q) =>
              /\ Receiver(p) # <<>>
              /\ chan'[HandlerPriority(p)] = Tail(Receiver(p))
        /\ BeginsRound(p) => ~BatchIsEmpty(r)
        /\ (q.pc \in {"fetch", "recv"} /\ r.pc = "exit") =>
              /\ ~q.control
              /\ Receiver(p) # <<>>
              /\ Head(Receiver(p)) = EmptyItem
              /\ chan'[HandlerPriority(p)] = Tail(Receiver(p))
      ]_vars

\* the only poller of the system blocks with an empty batch after rounds in
\* which a message was handled
C23_Witness ==
    \E p \in PollerIds, f \in FsmIds :
        /\ cfg.pool_size + cfg.low_priority_pool_size = 1
        /\ pl[p].pc = "recv"
        /\ hist.observed[f] # <<>>

(***************************************************************************)
(* The exit of a poller.                                                   *)
(***************************************************************************)
\* C24: the step of a poller whose loop has exited sends the control FSM, if
\* held, to the end of the normal channel and every normal FSM still held to
\* the end of the channel of its priority, each exactly once, and leaves the
\* batch empty; no mailbox gets an FSM back and none is destroyed by it; and
\* from the exit of the loop on the poller calls no hook.
C24_PollerExit ==
    [][\A p \in PollerIds :
        LET q == pl[p]
            r == pl'[p]
        IN
        /\ (q.pc = "exit" /\ r # q) =>
              /\ r.pc = "done"
              /\ r.normals = <<>>
              /\ ~r.control
              /\ \A pr \in Priorities :
                    /\ Len(chan'[pr]) >= Len(chan[pr])
                    /\ SubSeq(chan'[pr], 1, Len(chan[pr])) = chan[pr]
                    /\ \A f \in FsmIds \cup {CTL} :
                          Count(chan'[pr], LAMBDA it : it.fsm = f)
                            = Count(chan[pr], LAMBDA it : it.fsm = f)
                              + (IF (f = CTL /\ pr = "Normal") \/ (f # CTL /\ prio[f] = pr)
                                 THEN InBatch(p, f) ELSE 0)
                    /\ Count(chan'[pr], LAMBDA it : it = EmptyItem)
                         = Count(chan[pr], LAMBDA it : it = EmptyItem)
              /\ mbFsm' = mbFsm
              /\ destroyed' = destroyed
        /\ q.pc \in {"exit", "done"} => r.hooks = q.hooks /\ r.handled = q.handled
        /\ q.pc = "done" => r = q
      ]_vars

\* a poller's loop has exited with the control FSM and a normal FSM in the
\* batch
C24_Witness ==
    \E p \in PollerIds, f \in FsmIds :
        /\ pl[p].pc = "exit"
        /\ pl[p].control
        /\ InBatch(p, f) = 1

(***************************************************************************)
(* The boundary between two rounds.                                        *)
(***************************************************************************)
\* the batch of q as a round has to find it: every slot occupied, no policy
\* set, both index lists empty
AtBoundary(q) ==
    /\ \A j \in DOMAIN q.normals :
          q.normals[j].fsm # NONE /\ q.normals[j].policy = NoPolicy
    /\ q.reschedule_fsms = <<>>
    /\ q.to_skip_end = <<>>

\* C25: between two rounds (in fetch_fsm, and when the loop is left) every
\* normal slot of the batch is occupied with no policy set and
\* reschedule_fsms and to_skip_end are empty, and so it is when handler.begin
\* has run; within a round no normal FSM leaves the batch twice (by release,
\* remove or the scheduler), and one leaves it only in a schedule call of the
\* two final loops on a slot whose policy is set: a call on an empty slot or
\* on an FSM that left and came back in this round changes no channel and no
\* mailbox.
C25_RoundBoundary ==
    [][\A p \in PollerIds :
        LET q == pl[p]
            r == pl'[p]
        IN
        /\ r.pc \in {"fetch", "recv", "exit"} => AtBoundary(r) /\ r.disposed = <<>>
        /\ BeginsRound(p) =>
              /\ AtBoundary(q)
              /\ AtBoundary(r)
              /\ Len(r.normals) \in {Len(q.normals), Len(q.normals) + 1}
        /\ NoDuplicates(r.disposed)
        /\ (r.disposed # q.disposed /\ r.disposed # <<>>) =>
              /\ q.pc \in {"skip", "resched"}
              /\ \E j \in DOMAIN q.normals :
                    /\ j = (IF q.pc = "skip" THEN q.to_skip_end[q.i]
                            ELSE q.reschedule_fsms[q.i])
                    /\ q.normals[j].fsm # NONE
                    /\ q.normals[j].policy # NoPolicy
                    /\ r.disposed = Append(q.disposed, q.normals[j].fsm)
        /\ (q.pc \in {"skip", "resched"} /\ r # q) =>
              \A j \in DOMAIN q.normals :
                  j = (IF q.pc = "skip" THEN q.to_skip_end[q.i]
                       ELSE q.reschedule_fsms[q.i]) =>
                      /\ q.normals[j].fsm \in Range(q.disposed)
                            => q.normals[j].policy = NoPolicy
                      /\ (q.normals[j].fsm = NONE \/ q.normals[j].policy = NoPolicy) =>
                            /\ chan' = chan
                            /\ mbFsm' = mbFsm
                            /\ destroyed' = destroyed
      ]_vars

\* the final loop comes to an index that asked for skip_end: the FSM left the
\* batch before end, was taken back, and is in its slot with no policy
C25_Witness ==
    \E p \in PollerIds :
        LET q == pl[p] IN
        /\ q.pc = "resched"
        /\ q.i \in DOMAIN q.reschedule_fsms
        /\ q.reschedule_fsms[q.i] \in q.skip_req
        /\ q.reschedule_fsms[q.i] \in DOMAIN q.normals
        /\ q.normals[q.reschedule_fsms[q.i]].fsm \in Range(q.disposed)
        /\ q.normals[q.reschedule_fsms[q.i]].policy = NoPolicy

(***************************************************************************)
(* The max-timestamp task.                                                 *)
(***************************************************************************)
\* C26: a step of a task changes max_ts_sync_status only in its
\* compare_exchange, from initial_status to initial_status | 1, and only
\* after the timestamp was fetched (from the causal provider if there is
\* one, from PD otherwise) and update_max_ts succeeded in the same attempt;
\* the task then finishes with success.  A compare_exchange that finds
\* another status leaves the status as it is and the task finishes as
\* stale; success is set by nothing else.
C26_MaxTsSyncStatus ==
    [][\A t \in TaskIds :
        LET q == ts.tasks[t]
            r == ts'.tasks[t]
        IN
        r # q =>
          /\ ts'.max_ts_sync_status # ts.max_ts_sync_status =>
                /\ q.pc = "cas"
                /\ ts.max_ts_sync_status = q.initial_status
                /\ ts'.max_ts_sync_status = SetSynced(q.initial_status)
          /\ q.pc = "cas" =>
                /\ q.fetched = (IF ts.causal_ts_provider THEN "flush" ELSE "tso")
                /\ q.updated
                /\ r.pc = "done"
                /\ IF ts.max_ts_sync_status = q.initial_status
                   THEN /\ ts'.max_ts_sync_status = SetSynced(q.initial_status)
                        /\ r.success
                        /\ r.logged = "succeed"
                   ELSE /\ ts'.max_ts_sync_status = ts.max_ts_sync_status
                        /\ ~r.success
                        /\ r.logged = "stale"
          /\ q.pc # "cas" => r.success = q.success \/ q.pc = "idle"
          /\ r.pc = "cas" => q.pc = "update"
          /\ r.pc = "update" => q.pc = "fetch"
      ]_vars

\* one task swapped the status it was given; the other came to its swap
\* after another party had stored a new status, and finished as stale
C26_Witness ==
    \E t, u \in TaskIds :
        /\ ts.tasks[t].pc = "done" /\ ts.tasks[t].success /\ ts.tasks[t].initial_status = 0
        /\ ts.tasks[u].pc = "done" /\ ~ts.tasks[u].success /\ ts.tasks[u].cas = 1

\* the task t has been spawned and has not finished
Running(t) == ts.tasks[t].pc \notin {"idle", "done"}

\* C27: a task starts an attempt only after it loaded a status equal to
\* initial_status and then loaded the shutdown flag as unset; it executes at
\* most one compare_exchange and finishes with it; an attempt that failed
\* (in the fetch or in update_max_ts) leads back to the test of the loop; a
\* test that finds another status, or the shutdown flag set, finishes the
\* task, and a finished task does nothing more.  Under the fair
\* specification a running task finishes once shutdown is set, and
\* finishes if the status differs from initial_status from some point on.
C27_MaxTsRetryLoop ==
    /\ [][\A t \in TaskIds :
            LET q == ts.tasks[t]
                r == ts'.tasks[t]
            IN
            r # q =>
              /\ r.pc = "fetch" =>
                    /\ q.pc = "load_shutdown"
                    /\ ~(ts.shutdown /\ t \in ts.visible)
              /\ r.pc = "load_shutdown" =>
                    /\ q.pc = "load_status"
                    /\ ts.max_ts_sync_status = q.initial_status
              /\ q.pc = "load_status" =>
                    r.pc = (IF ts.max_ts_sync_status = q.initial_status
                            THEN "load_shutdown" ELSE "done")
              /\ q.pc = "load_shutdown" =>
                    r.pc = (IF ts.shutdown /\ t \in ts.visible THEN "done" ELSE "fetch")
              /\ q.pc = "fetch" => r.pc \in {"update", "load_status"}
              /\ q.pc = "update" => r.pc \in {"cas", "load_status"}
              /\ q.pc = "cas" => r.pc = "done" /\ r.cas = q.cas + 1
              /\ q.pc # "cas" => r.cas = (IF q.pc = "idle" THEN 0 ELSE q.cas)
              /\ r.cas <= 1
              /\ q.pc # "done"
       ]_vars
    /\ \A t \in TaskIds : (ts.shutdown /\ Running(t)) ~> (ts.tasks[t].pc = "done")
    /\ \A t \in TaskIds :
          <>[](Running(t) /\ ts.max_ts_sync_status # ts.tasks[t].initial_status)
            => <>(ts.tasks[t].pc = "done")

\* one task swapped after a failed attempt; the other, whose status is
\* the one it was given, was ended by the shutdown flag after a failed
\* attempt and without a swap
C27_Witness ==
    \E t, u \in TaskIds :
        /\ ts.tasks[t].pc = "done" /\ ts.tasks[t].retried /\ ts.tasks[t].cas = 1
        /\ ts.tasks[t].success
        /\ ts.tasks[u].pc = "done" /\ ts.tasks[u].cas = 0 /\ ts.shutdown
        /\ ts.tasks[u].retried
        /\ ts.tasks[u].initial_status = 0
        /\ ts.tasks[t].initial_status = 1
        /\ ts.max_ts_sync_status = 0

====
